---- MODULE Spec2Model ----
(***************************************************************************)
(* Model of the registry clients (Re3DataHarvester, FAIRsharingHarvester), *)
(* the registry orchestration of RepositoryHarvester and the endpoint      *)
(* validator (ServiceValidator) of wp2-repo-harvester.                     *)
(*                                                                         *)
(* Python strings are modelled as sequences of one-character strings, so   *)
(* that lower(), startswith(), endswith(), split() and the "in" substring  *)
(* test are computed and not assumed.  Python's None in a string position  *)
(* is the one-element sequence NoneStr, whose element is no character.     *)
(***************************************************************************)
EXTENDS Integers, Sequences, FiniteSets, TLC

VARIABLES
    query_hostname,   \* _hostnames_match: first argument
    record_hostname,  \* _hostnames_match: second argument
    match_result,     \* results of the two clients' _hostnames_match
    search_case,      \* which client search is run on search_data
    search_data,      \* the candidates the registry answered with
    search_out,       \* what the client search returned
    pc,               \* position in harvest_registry_metadata
    catalog_url,      \* RepositoryHarvester.catalog_url
    jwt_token,        \* FAIRsharingHarvester.jwt_token
    re3data_meta,     \* harvest_registry_metadata: re3data_meta
    fairsharing_meta, \* harvest_registry_metadata: fairsharing_meta
    metadata,         \* RepositoryHarvester.metadata, the chunk list
    calls,            \* requests sent to the registries, in order
    v_pc,             \* position in validate_url
    v_url,            \* validate_url: url
    v_api_type,       \* validate_url: api_type
    protocol_configs, \* ServiceValidator.protocol_configs
    v_probes,         \* the probes sent so far, each with its response
    v_recovery_url,   \* _check_specific_http: recovery_url
    v_outcome,        \* what validate_url returned
    g_pc,             \* position in the use of one JSONGraph
    g_graph,          \* the objects of the structured-data graph
    g_shape,          \* the shape the document gives the graph in
    g_document,       \* json.loads(jsonstr)
    g_rootNodeID,     \* parse: rootNodeID, None when it is not given
    g_nodes,          \* JSONGraph.nodes
    g_mainNode,       \* JSONGraph.mainNode
    g_jsonld,         \* JSONGraph.jsonld
    g_target,         \* getNodesByType: target_type, excludeMainEntity
    g_results,        \* what getNodesByType returned
    h_fetch,          \* outcome of the landing-page fetch of __init__
    h_page,           \* what the extractors were given by the landing page
    h_next,           \* export: position in the loop over self.metadata
    h_services,       \* the 'services' of the chunks the loop has passed
    h_records,        \* export: final_records
    h_raised,         \* the statement an exception left harvest() from
    c_pc,             \* per instance: position in its run
    c_input,          \* per instance: what its requests are answered with
    c_nodes,          \* JSONGraph.nodes of the graph an instance parses
    c_metadata,       \* RepositoryHarvester.metadata of each instance
    c_records,        \* what export returned to each instance
    k_pc,             \* position in get_repo_info
    k_url,            \* get_repo_info: url
    k_env,            \* what the two harvesters of the request end with
    k_mscr,           \* how the MSCR attempt ended
    k_legacy,         \* how the legacy harvest ended
    k_response        \* what get_repo_info returned

hostVars == <<query_hostname, record_hostname, match_result>>

searchVars == <<search_case, search_data, search_out>>

regVars == <<pc, catalog_url, jwt_token, re3data_meta, fairsharing_meta, metadata, calls>>

valVars == <<v_pc, v_url, v_api_type, protocol_configs, v_probes, v_recovery_url, v_outcome>>

graphVars == <<g_pc, g_graph, g_shape, g_document, g_rootNodeID, g_nodes, g_mainNode, g_jsonld, g_target, g_results>>

harvestVars == <<h_fetch, h_page, h_next, h_services, h_records, h_raised>>

concVars == <<c_pc, c_input, c_nodes, c_metadata, c_records>>

ctrlVars == <<k_pc, k_url, k_env, k_mscr, k_legacy, k_response>>

vars == <<hostVars, searchVars, regVars, valVars, graphVars, harvestVars, concVars, ctrlVars>>

-----------------------------------------------------------------------------
(* Bounds *)

MaxLabels == 3

MaxCands == 3

MaxResults == 1

MaxLinks == 2

MaxObjs == 2

-----------------------------------------------------------------------------
(* Python string primitives *)

NoneStr == <<"None">>

Falsy(s) == s = NoneStr \/ s = <<>>

LowerChar(c) ==
    CASE c = "A" -> "a"
      [] c = "B" -> "b"
      [] c = "W" -> "w"
      [] c = "F" -> "f"
      [] c = "I" -> "i"
      [] c = "R" -> "r"
      [] c = "S" -> "s"
      [] c = "P" -> "p"
      [] c = "Q" -> "q"
      [] c = "L" -> "l"
      [] c = "T" -> "t"
      [] c = "J" -> "j"
      [] c = "O" -> "o"
      [] c = "N" -> "n"
      [] c = "X" -> "x"
      [] c = "M" -> "m"
      [] c = "H" -> "h"
      [] OTHER -> c

Lower(s) == [i \in 1..Len(s) |-> LowerChar(s[i])]

StartsWith(s, p) == Len(s) >= Len(p) /\ SubSeq(s, 1, Len(p)) = p

EndsWith(s, p) == Len(s) >= Len(p) /\ SubSeq(s, Len(s) - Len(p) + 1, Len(s)) = p

Contains(s, p) == \E i \in 1..(Len(s) - Len(p) + 1) : SubSeq(s, i, i + Len(p) - 1) = p

\* len(s.split('.')): one more than the number of separators
SplitCount(s, sep) == Cardinality({i \in 1..Len(s) : s[i] = sep}) + 1

\* s.split(sep)
RECURSIVE Split(_, _)
Split(s, sep) ==
    IF \A i \in 1..Len(s) : s[i] # sep THEN <<s>>
    ELSE LET k == CHOOSE i \in 1..Len(s) : s[i] = sep /\ \A j \in 1..(i - 1) : s[j] # sep
         IN  <<SubSeq(s, 1, k - 1)>> \o Split(SubSeq(s, k + 1, Len(s)), sep)

SplitDots(s) == Split(s, ".")

\* s.lstrip(c)
RECURSIVE LStrip(_, _)
LStrip(s, c) == IF s # <<>> /\ s[1] = c THEN LStrip(Tail(s), c) ELSE s

\* s.rstrip(c)
RECURSIVE RStrip(_, _)
RStrip(s, c) == IF s # <<>> /\ s[Len(s)] = c THEN RStrip(SubSeq(s, 1, Len(s) - 1), c) ELSE s

\* s.strip()
Strip(s) == RStrip(LStrip(s, " "), " ")

\* s.replace(p, '')
RECURSIVE Remove(_, _)
Remove(s, p) ==
    IF ~Contains(s, p) THEN s
    ELSE LET k == CHOOSE i \in 1..(Len(s) - Len(p) + 1) :
                     /\ SubSeq(s, i, i + Len(p) - 1) = p
                     /\ \A j \in 1..(i - 1) : SubSeq(s, j, j + Len(p) - 1) # p
         IN  SubSeq(s, 1, k - 1) \o Remove(SubSeq(s, k + Len(p), Len(s)), p)

UpperChar(c) ==
    CASE c = "f" -> "F"
      [] c = "t" -> "T"
      [] c = "p" -> "P"
      [] c = "a" -> "A"
      [] c = "i" -> "I"
      [] c = "x" -> "X"
      [] OTHER -> c

Upper(s) == [i \in 1..Len(s) |-> UpperChar(s[i])]

-----------------------------------------------------------------------------
(* Hostname matching, Re3DataHarvester and FAIRsharingHarvester *)

WwwDot == <<"w", "w", "w", ".">>

Re3_normalize_hostname(hostname) ==
    IF Falsy(hostname) THEN NoneStr
    ELSE LET h == Lower(hostname)
         IN  IF StartsWith(h, WwwDot) THEN SubSeq(h, 5, Len(h)) ELSE h

\* root-domain matching: the depth check dropped
Re3_hostnames_match_rootdomain(q, r) ==
    LET h1 == Re3_normalize_hostname(q)
        h2 == Re3_normalize_hostname(r)
    IN  IF Falsy(h1) \/ Falsy(h2) THEN FALSE
        ELSE IF h1 = h2 THEN TRUE
        ELSE EndsWith(h1, <<".">> \o h2) \/ EndsWith(h2, <<".">> \o h1)

Re3_hostnames_match(q, r) ==
    LET h1 == Re3_normalize_hostname(q)
        h2 == Re3_normalize_hostname(r)
    IN  IF Falsy(h1) \/ Falsy(h2) THEN FALSE
        ELSE IF h1 = h2 THEN TRUE
        ELSE LET d1 == SplitCount(h1, ".")
                 d2 == SplitCount(h2, ".")
                 depth_diff == IF d1 >= d2 THEN d1 - d2 ELSE d2 - d1
             IN  depth_diff = 1
                 /\ (EndsWith(h1, <<".">> \o h2) \/ EndsWith(h2, <<".">> \o h1))

FS_normalize_hostname(hostname) ==
    IF Falsy(hostname) THEN NoneStr
    ELSE LET h == Lower(hostname)
         IN  IF StartsWith(h, WwwDot) THEN SubSeq(h, 5, Len(h)) ELSE h

FS_hostnames_match(q, r) ==
    LET h1 == FS_normalize_hostname(q)
        h2 == FS_normalize_hostname(r)
    IN  IF Falsy(h1) \/ Falsy(h2) THEN FALSE
        ELSE IF h1 = h2 THEN TRUE
        ELSE LET d1 == SplitCount(h1, ".")
                 d2 == SplitCount(h2, ".")
                 depth_diff == IF d1 >= d2 THEN d1 - d2 ELSE d2 - d1
             IN  depth_diff = 1
                 /\ (EndsWith(h1, <<".">> \o h2) \/ EndsWith(h2, <<".">> \o h1))

-----------------------------------------------------------------------------
(* String constants of the registry model *)

HttpScheme == <<"h", "t", "t", "p", ":", "/", "/">>
HostAB == <<"a", ".", "b">>
HostCAB == <<"c", ".", "a", ".", "b">>
HostXY == <<"x", ".", "y">>
HostL == <<"l">>
UrlAB == <<"h", "t", "t", "p", ":", "/", "/", "A", ".", "b", "/">>
UrlL == <<"h", "t", "t", "p", ":", "/", "/", "l", "/", "p">>
UrlCAB == <<"h", "t", "t", "p", ":", "/", "/", "c", ".", "a", ".", "b", "/">>
UrlXY == <<"h", "t", "t", "p", ":", "/", "/", "x", ".", "y", "/">>
UrlNoHost == <<"a", ".", "b">>
Fairsharing == <<"f", "a", "i", "r", "s", "h", "a", "r", "i", "n", "g">>
R3dPrefix == <<"r", "3", "d">>
FsId == <<"F", "A", "I", "R", "s", "h", "a", "r", "i", "n", "g", ".", "x">>
DoiLower == <<"f", "a", "i", "r", "s", "h", "a", "r", "i", "n", "g", ".", "x">>
DoiOther == <<"1", "0", ".", "y">>
R3dId == <<"r", "3", "d", "1">>
R3dUrl == <<"r", "e", "3", "d", "a", "t", "a", ".", "o", "r", "g", "/", "r", "3", "d", "1">>
TitleRepo == <<"R", "e", "p", "o">>
NameMyRepo == <<"m", "y", " ", "r", "e", "p", "o">>
NameOther == <<"o", "t", "h", "e", "r">>
Jwt == <<"j", "w", "t">>

\* urlparse(url).hostname: the part between "//" and the next "/", lower-cased;
\* None when the URL has no "//" authority or the authority is empty
UrlHostname(url) ==
    IF Falsy(url) \/ ~StartsWith(url, HttpScheme) THEN NoneStr
    ELSE LET rest == SubSeq(url, Len(HttpScheme) + 1, Len(url))
             stops == {i \in 1..Len(rest) : rest[i] = "/"}
             n == IF stops = {} THEN Len(rest)
                  ELSE (CHOOSE i \in stops : \A j \in stops : i <= j) - 1
         IN  IF n = 0 THEN NoneStr ELSE Lower(SubSeq(rest, 1, n))

-----------------------------------------------------------------------------
(* String constants of the validator model *)

FtpScheme == <<"f", "t", "p", ":", "/", "/">>
FtpType == <<"F", "T", "P">>
Placeholder == <<"{", "e", "n", "d", "p", "o", "i", "n", "t", "U", "R", "I", "}">>
SparqlMark == <<"S", "P", "A", "R", "Q", "L">>
AppJson == <<"a", "p", "p", "l", "i", "c", "a", "t", "i", "o", "n", "/", "j", "s", "o", "n">>
TextHtml == <<"t", "e", "x", "t", "/", "h", "t", "m", "l">>
DotJson == <<".", "j", "s", "o", "n">>
Unknown == <<"u", "n", "k", "n", "o", "w", "n">>

UrlApi == <<"h", "t", "t", "p", ":", "/", "/", "h", "/", "a">>
UrlApiQuery == <<"h", "t", "t", "p", ":", "/", "/", "h", "/", "a", "?", "x">>
UrlFtp == <<"f", "t", "p", ":", "/", "/", "h", "/", "f">>
UrlFtpBadPort == <<"f", "t", "p", ":", "/", "/", "h", ":", "x", "/", "f">>
UrlRedirected == <<"h", "t", "t", "p", ":", "/", "/", "g", "/", "d", "/", "p">>

TypeApi == <<"A", "P", "I">>
TypeApiPadded == <<" ", "A", "P", "I", " ">>
TypeFtpLower == <<"f", "t", "p">>
TypeOther == <<"X">>
NotAString == <<"NotAString">>

SuffixQuery == <<"?", "v">>
SuffixPath == <<"/", "s">>

AcceptJson == <<"a", "p", "p", "l", "i", "c", "a", "t", "i", "o", "n", "/", "j", "s", "o", "n">>
AcceptSparql == <<"a", "p", "p", "l", "i", "c", "a", "t", "i", "o", "n", "/", "s", "p", "a", "r", "q", "l", "-", "r", "e", "s", "u", "l", "t", "s", "+", "j", "s", "o", "n">>
AcceptSparqlUpper == <<"a", "p", "p", "l", "i", "c", "a", "t", "i", "o", "n", "/", "S", "P", "A", "R", "Q", "L", "-", "r", "e", "s", "u", "l", "t", "s", "+", "j", "s", "o", "n">>
AcceptXml == <<"t", "e", "x", "t", "/", "x", "m", "l", ",", " ", "A", "p", "p", "l", "i", "c", "a", "t", "i", "o", "n", "/", "X", "M", "L">>

CtJson == <<"a", "p", "p", "l", "i", "c", "a", "t", "i", "o", "n", "/", "j", "s", "o", "n">>
CtHtml == <<"T", "e", "x", "t", "/", "H", "T", "M", "L", ";", " ", "c", "h", "a", "r", "s", "e", "t", "=", "u", "t", "f", "-", "8">>
CtXml == <<"a", "p", "p", "l", "i", "c", "a", "t", "i", "o", "n", "/", "x", "m", "l">>

LinkJson == <<"r", ".", "j", "s", "o", "n">>
LinkJsonHtml == <<"d", ".", "j", "s", "o", "n", ".", "h", "t", "m", "l">>
LinkHtml == <<"x", ".", "h", "t", "m", "l">>

-----------------------------------------------------------------------------
(* Values returned by a registry lookup.  A metadata dictionary is a record *)
(* whose absent keys hold None; idx is the position of the candidate the    *)
(* returned dictionary was built from.                                      *)

NoMeta == [title |-> NoneStr, identifier |-> <<>>]

Found(i, m) == [outcome |-> "record", idx |-> i, meta |-> m]

NoResult == [outcome |-> "none", idx |-> 0, meta |-> NoMeta]

Raises == [outcome |-> "raise", idx |-> 0, meta |-> NoMeta]

MinOf(S) == CHOOSE i \in S : \A j \in S : i <= j

-----------------------------------------------------------------------------
(* FAIRsharingHarvester *)

\* one entry of the search response's "data" list; attributes = FALSE is
\* an entry whose "attributes" is null
FSRecord(att, ty, hp, doi, st, nm, xr) ==
    [attributes |-> att, type |-> ty, homepage |-> hp, doi |-> doi,
     status |-> st, name |-> nm, xrefs |-> xr]

\* FAIRSHARING_QUERY followed by the removal of falsy values
FS_project(rec) ==
    [title |-> IF Falsy(rec.name) THEN NoneStr ELSE rec.name,
     identifier |-> <<rec.doi>> \o rec.xrefs]

\* any record that carries a DOI counts as the requested one
FS_doi_equal_any(rec, expected_doi) ==
    /\ ~Falsy(rec.doi)
    /\ ~Falsy(expected_doi)

FS_doi_equal(rec, expected_doi) ==
    /\ ~Falsy(rec.doi)
    /\ ~Falsy(expected_doi)
    /\ Lower(rec.doi) = Lower(expected_doi)

FS_homepage_matches(rec, hostname_filter) ==
    /\ ~Falsy(rec.homepage)
    /\ LET record_hostname_ == UrlHostname(rec.homepage)
       IN  ~Falsy(record_hostname_) /\ FS_hostnames_match(hostname_filter, record_hostname_)

\* best_record: the first "ready" record, else the first not "deprecated"
\* no preference for "ready": the first record that is not "deprecated"
FS_best_record_first_active(results, matching) ==
    LET notDeprecated == {i \in matching : results[i].status # "deprecated"}
    IN  IF notDeprecated # {} THEN MinOf(notDeprecated) ELSE 0

FS_best_record(results, matching) ==
    LET ready == {i \in matching : results[i].status = "ready"}
        notDeprecated == {i \in matching : results[i].status # "deprecated"}
    IN  IF ready # {} THEN MinOf(ready)
        ELSE IF notDeprecated # {} THEN MinOf(notDeprecated)
        ELSE 0

FS_parse_search_results(results, hostname_filter, expected_doi) ==
    IF results = <<>> THEN NoResult
    ELSE
    LET n == Len(results)
        byDoi == ~Falsy(expected_doi)
        byHost == ~byDoi /\ ~Falsy(hostname_filter)
        doiHits == {i \in 1..n : results[i].attributes /\ FS_doi_equal(results[i], expected_doi)}
        lastVisited == IF doiHits = {} THEN n ELSE MinOf(doiHits)
        doiRaise == \E i \in 1..lastVisited : ~results[i].attributes
        hostRaise == \E i \in 1..n :
                        results[i].type = "fairsharing_records" /\ ~results[i].attributes
        hostHits == {i \in 1..n : /\ results[i].type = "fairsharing_records"
                                  /\ results[i].attributes
                                  /\ FS_homepage_matches(results[i], hostname_filter)}
        matching == IF byDoi THEN (IF doiHits = {} THEN {} ELSE {MinOf(doiHits)})
                    ELSE IF byHost THEN hostHits
                    ELSE {}
        best == FS_best_record(results, matching)
    IN  IF (byDoi /\ doiRaise) \/ (byHost /\ hostRaise) THEN Raises
        ELSE IF matching = {} THEN NoResult
        ELSE IF best = 0 THEN NoResult
        ELSE Found(best, FS_project(results[best]))

\* resp.kind: "401", "error" (any RequestException: timeout, DNS, connection,
\* other non-2xx status) or "ok" with the "data" list
FS_search_fairsharing(query, hostname_filter, expected_doi, resp) ==
    IF resp.kind = "401" THEN NoResult
    ELSE IF resp.kind = "error" THEN NoResult
    ELSE FS_parse_search_results(resp.data, hostname_filter, expected_doi)

FS_harvest_by_id(fairsharing_id, resp) ==
    FS_search_fairsharing(fairsharing_id, NoneStr, fairsharing_id, resp)

-----------------------------------------------------------------------------
(* Re3DataHarvester *)

\* the detailed record of one repository: fetch_ok = FALSE is a failed
\* fetch or unparsable XML; contact is the repositoryContact element
\* ("absent", "empty" for an element without text, "email"); status is what
\* the registry says about the record, which no code of the client reads
Re3Detail(ok, url, nm, ids, ct, st) ==
    [fetch_ok |-> ok, repositoryURL |-> url, repositoryName |-> nm,
     repositoryIdentifier |-> ids, contact |-> ct, status |-> st]

\* one <repository> element of the search result list with the detailed
\* record its id resolves to
Re3Candidate(id, nm, detail) == [id |-> id, name |-> nm, record |-> detail]

Truthy(x) == ~Falsy(x)

Re3_parse_record(repo_id, d) ==
    IF d.contact = "empty" THEN Raises
    ELSE Found(1, [title |-> IF Falsy(d.repositoryName) THEN NoneStr ELSE d.repositoryName,
                   identifier |-> SelectSeq(<<repo_id, d.repositoryURL>>, Truthy)
                                  \o SelectSeq(d.repositoryIdentifier, Truthy)])

Re3_harvest_by_id(re3data_id, d) ==
    IF ~d.fetch_ok THEN NoResult ELSE Re3_parse_record(re3data_id, d)

Re3_name_verified(query, c) ==
    /\ ~Falsy(c.id)
    /\ ~Falsy(c.name)
    /\ Contains(Lower(c.name), Lower(query))

Re3_hostname_verified(query, c) ==
    /\ ~Falsy(c.id)
    /\ c.record.fetch_ok
    /\ ~Falsy(c.record.repositoryURL)
    /\ Re3_hostnames_match(query, UrlHostname(c.record.repositoryURL))

\* resp.kind: "error" (RequestException or XMLSyntaxError of the search
\* request) or "ok" with the list of <repository> elements
Re3_search_and_verify(query, search_type, resp) ==
    IF resp.kind = "error" THEN NoResult
    ELSE
    LET n == Len(resp.data)
        hits == {i \in 1..n :
                    IF search_type = "name" THEN Re3_name_verified(query, resp.data[i])
                    ELSE search_type = "hostname" /\ Re3_hostname_verified(query, resp.data[i])}
    IN  IF hits = {} THEN NoResult
        ELSE LET k == MinOf(hits)
                 r == IF search_type = "name"
                      THEN Re3_harvest_by_id(resp.data[k].id, resp.data[k].record)
                      ELSE Re3_parse_record(resp.data[k].id, resp.data[k].record)
             IN  IF r.outcome = "record" THEN Found(k, r.meta) ELSE r

-----------------------------------------------------------------------------
(* ServiceValidator *)

\* the outcome has no "status_code" key
NoStatus == 0

\* the "status_code" of a successful FTP check, the string "OK"
FtpOk == 0 - 1

\* a validation outcome; a key the dictionary does not have holds None, ""
\* or <<>>
Outcome(valid, sc, ct, url, exp, note, orig, err, red, fin) ==
    [valid |-> valid, status_code |-> sc, content_type |-> ct, url |-> url,
     expected_content_type |-> exp, note |-> note, original_url |-> orig,
     error |-> err, redirects |-> red, final_url |-> fin]

NoOutcome == Outcome(FALSE, NoStatus, NoneStr, NoneStr, NoneStr, "", NoneStr, "", <<>>, NoneStr)

Done(o) == [next |-> "done", outcome |-> o, recovery_url |-> NoneStr]

RaisesV == [next |-> "raise", outcome |-> NoOutcome, recovery_url |-> NoneStr]

\* the probe URL: the endpoint URL with the configured suffix
TargetUrl(url, configured) ==
    LET suffix == IF configured # <<>> /\ Contains(configured, Placeholder)
                  THEN Remove(configured, Placeholder)
                  ELSE configured
    IN  IF suffix # <<>>
        THEN IF StartsWith(suffix, <<"?">>)
             THEN url \o (IF Contains(url, <<"?">>) THEN <<"&">> ELSE <<"?">>) \o LStrip(suffix, "?")
             ELSE IF StartsWith(suffix, <<"/">>)
             THEN RStrip(url, "/") \o suffix
             ELSE RStrip(url, "/") \o <<"/">> \o LStrip(suffix, "/")
        ELSE url

\* urljoin(base, link) for a relative link: the base without its query, up
\* to its last "/", followed by the link
UrlJoin(base, link) ==
    IF StartsWith(link, HttpScheme) \/ StartsWith(link, FtpScheme) THEN link
    ELSE LET path == Split(base, "?")[1]
             slashes == {i \in 1..Len(path) : path[i] = "/"}
             last == CHOOSE i \in slashes : \A j \in slashes : j <= i
         IN  SubSeq(path, 1, last) \o link

IsJsonLink(href) == Contains(href, DotJson)

AcceptedTypes(expected_mime) ==
    LET parts == Split(expected_mime, ",")
    IN  [i \in 1..Len(parts) |-> Lower(Strip(parts[i]))]

MatchFound_reversed(received_mime, accepted_types) ==
    \E i \in 1..Len(accepted_types) : Contains(accepted_types[i], received_mime)

\* the loop over accepted_types: t in received_mime
MatchFound(received_mime, accepted_types) ==
    \E i \in 1..Len(accepted_types) : Contains(received_mime, accepted_types[i])

ReceivedMime(resp, default) ==
    Lower(IF resp.content_type = NoneStr THEN default ELSE resp.content_type)

Redirects(resp) == resp.history

FinalUrl(resp) == IF resp.history # <<>> THEN resp.url ELSE NoneStr

\* _check_specific_http up to its return or up to the recursive call of
\* validate_url for the recovery URL
check_specific_http(url, config, is_recovery_attempt, resp) ==
    LET target_url == TargetUrl(url, config.suffix)
        expected_mime == config.accept
    IN  IF resp.kind = "error"
        THEN Done(Outcome(FALSE, NoStatus, NoneStr, target_url, NoneStr, "", NoneStr,
                          "request", <<>>, NoneStr))
        ELSE IF Contains(expected_mime, SparqlMark) /\ resp.status_code = 400
        THEN Done(Outcome(TRUE, 400, NoneStr, target_url, NoneStr,
                          "Active (Missing Query params)", NoneStr, "", <<>>, NoneStr))
        ELSE
        LET is_valid == 200 <= resp.status_code /\ resp.status_code < 400
            received_mime == ReceivedMime(resp, <<>>)
            accepted_types == AcceptedTypes(expected_mime)
            match_found == MatchFound(received_mime, accepted_types)
            result(valid, mime_warning) ==
                Outcome(valid, resp.status_code, received_mime, target_url,
                        IF expected_mime # <<>> THEN expected_mime ELSE NoneStr,
                        "", NoneStr, mime_warning, Redirects(resp), FinalUrl(resp))
            invalid == result(FALSE, "Invalid Content-Type")
            json_links == SelectSeq(resp.links, IsJsonLink)
        IN  IF is_valid /\ expected_mime # <<>> /\ ~match_found
            THEN IF /\ Contains(expected_mime, AppJson)
                    /\ Contains(received_mime, TextHtml)
                    /\ ~is_recovery_attempt
                 THEN IF ~resp.html_ok THEN Done(invalid)
                      ELSE IF json_links # <<>>
                      THEN [next |-> "recover", outcome |-> invalid,
                            recovery_url |-> UrlJoin(resp.url, json_links[1])]
                      ELSE IF resp.swagger
                      THEN Done(Outcome(TRUE, resp.status_code, received_mime, target_url,
                                        expected_mime, "Swagger UI", NoneStr, "", <<>>, NoneStr))
                      ELSE Done(invalid)
                 ELSE Done(invalid)
            ELSE Done(result(is_valid, ""))

check_generic_http(url, resp) ==
    IF resp.kind = "error"
    THEN Done(Outcome(FALSE, NoStatus, NoneStr, url, NoneStr, "", NoneStr, "request", <<>>, NoneStr))
    ELSE Done(Outcome(200 <= resp.status_code /\ resp.status_code < 400, resp.status_code,
                      ReceivedMime(resp, Unknown), url, NoneStr, "", NoneStr, "",
                      Redirects(resp), FinalUrl(resp)))

\* urlparse(url).port: "invalid" when the text after the ":" of the
\* authority is not a number
UrlPort(url) ==
    IF ~Contains(url, <<"/", "/">>) THEN "none"
    ELSE LET k == CHOOSE i \in 1..(Len(url) - 1) :
                     /\ url[i] = "/" /\ url[i + 1] = "/"
                     /\ \A j \in 1..(i - 1) : ~(url[j] = "/" /\ url[j + 1] = "/")
             authority == Split(SubSeq(url, k + 2, Len(url)), "/")[1]
             parts == Split(authority, ":")
         IN  IF Len(parts) < 2 \/ parts[2] = <<>> THEN "none"
             ELSE IF \A i \in 1..Len(parts[2]) :
                        parts[2][i] \in {"0", "1", "2", "3", "4", "5", "6", "7", "8", "9"}
             THEN "number"
             ELSE "invalid"

check_ftp(url, ftp_ok) ==
    IF UrlPort(url) = "invalid" THEN RaisesV
    ELSE IF ftp_ok
    THEN Done(Outcome(TRUE, FtpOk, NoneStr, NoneStr, NoneStr, "", NoneStr, "", <<>>, NoneStr))
    ELSE Done(Outcome(FALSE, NoStatus, NoneStr, NoneStr, NoneStr, "", NoneStr, "ftp", <<>>, NoneStr))

\* which check validate_url dispatches to
Route(url, api_type) ==
    IF Falsy(url) THEN "empty"
    ELSE IF api_type = NotAString THEN "raise"
    ELSE IF Upper(Strip(api_type)) = FtpType \/ StartsWith(url, FtpScheme) THEN "ftp"
    ELSE IF protocol_configs.key = Strip(api_type) THEN "specific"
    ELSE "generic"

\* the call that hands no is_recovery_attempt on to _check_specific_http
validate_url_without_flag(url, api_type, is_recovery_attempt, resp, ftp_ok) ==
    LET route == Route(url, api_type)
    IN  IF route = "empty"
        THEN Done(Outcome(FALSE, NoStatus, NoneStr, NoneStr, NoneStr, "", NoneStr,
                          "Empty URL", <<>>, NoneStr))
        ELSE IF route = "raise" THEN RaisesV
        ELSE IF route = "ftp" THEN check_ftp(url, ftp_ok)
        ELSE IF route = "specific"
        THEN check_specific_http(url, protocol_configs, FALSE, resp)
        ELSE check_generic_http(url, resp)

validate_url(url, api_type, is_recovery_attempt, resp, ftp_ok) ==
    LET route == Route(url, api_type)
    IN  IF route = "empty"
        THEN Done(Outcome(FALSE, NoStatus, NoneStr, NoneStr, NoneStr, "", NoneStr,
                          "Empty URL", <<>>, NoneStr))
        ELSE IF route = "raise" THEN RaisesV
        ELSE IF route = "ftp" THEN check_ftp(url, ftp_ok)
        ELSE IF route = "specific"
        THEN check_specific_http(url, protocol_configs, is_recovery_attempt, resp)
        ELSE check_generic_http(url, resp)

-----------------------------------------------------------------------------
(* JSON values of the JSONGraph model.  A value is a record tagged with its *)
(* Python type; a dict is the sequence of its items in insertion order.     *)

VStr(s) == [t |-> "str", v |-> s]

VList(items) == [t |-> "list", v |-> items]

VDict(items) == [t |-> "dict", v |-> items]

\* a JSON number or boolean
VNum == [t |-> "num", v |-> <<>>]

\* JSON null, Python None
VNull == [t |-> "null", v |-> <<>>]

Item(key, val) == [key |-> key, val |-> val]

AtId == <<"@", "i", "d">>
AtType == <<"@", "t", "y", "p", "e">>
AtGraph == <<"@", "g", "r", "a", "p", "h">>
KeyUrl == <<"u", "r", "l">>

\* key in d
HasKey(d, key) == \E i \in 1..Len(d.v) : d.v[i].key = key

\* d.get(key)
DictGet(d, key) ==
    IF HasKey(d, key)
    THEN d.v[CHOOSE i \in 1..Len(d.v) : d.v[i].key = key].val
    ELSE VNull

\* d[key] = val: an existing key keeps its position
DictSet(d, key, val) ==
    IF HasKey(d, key)
    THEN VDict([i \in 1..Len(d.v) |-> IF d.v[i].key = key THEN Item(key, val) ELSE d.v[i]])
    ELSE VDict(Append(d.v, Item(key, val)))

\* len(branch) == 1 and '@id' in branch
IsIdOnly(x) == x.t = "dict" /\ Len(x.v) = 1 /\ HasKey(x, AtId)

\* Python truth of a value
IsTruthy(x) ==
    IF x.t \in {"str", "list", "dict"} THEN x.v # <<>> ELSE x.t = "num"

\* s.split(sep)[-1]
LastPart(s, sep) == Split(s, sep)[Len(Split(s, sep))]

\* _setNodes.strip_node_prefixes
RECURSIVE strip_node_prefixes(_)
RECURSIVE StripItems(_, _)
StripItems(items, acc) ==
    IF items = <<>> THEN acc
    ELSE LET value == items[1].val
             stripped ==
                 IF value.t = "dict" THEN strip_node_prefixes(value)
                 ELSE IF value.t = "list"
                 THEN VList([i \in 1..Len(value.v) |->
                               IF value.v[i].t = "dict"
                               THEN strip_node_prefixes(value.v[i])
                               ELSE value.v[i]])
                 ELSE value
         IN  StripItems(Tail(items), DictSet(acc, LastPart(items[1].key, ":"), stripped))

strip_node_prefixes(node) ==
    IF node.t = "dict" THEN StripItems(node.v, VDict(<<>>)) ELSE node

local_name_colon_only(type_name) ==
    IF type_name = <<>> THEN NoneStr
    ELSE LastPart(type_name, ":")

\* JSONGraph._local_name; None is the string NoneStr
local_name(type_name) ==
    IF type_name = <<>> THEN NoneStr
    ELSE LastPart(LastPart(type_name, "/"), ":")

-----------------------------------------------------------------------------
(* JSONGraph._setNodes.  The graph under construction is a record: nodes is *)
(* self.nodes as the sequence of its values in insertion order, properties  *)
(* is self._stats['properties'], made counts the identifiers generated and  *)
(* stored counts the entries written, so that an entry replaced by a later  *)
(* node of the same identifier can be told from the dict still being read.  *)

UrnUuid == <<"u", "r", "n", ":", "u", "u", "i", "d", ":">>

Digits == <<"1", "2", "3", "4", "5", "6", "7", "8", "9">>

\* 'urn:uuid:' + str(uuid.uuid4()): a fresh identifier
GeneratedId(n) == UrnUuid \o <<Digits[n]>>

EmptyGraph == [nodes |-> <<>>, properties |-> 0, made |-> 0, stored |-> 0]

Node(id, dict, properties, from_prop, serial) ==
    [id |-> id, dict |-> dict, outlinks |-> 0, inlinks |-> 0,
     properties |-> properties, from_prop |-> from_prop, serial |-> serial]

InNodes(nodes, id) == \E i \in 1..Len(nodes) : nodes[i].id = id

NodeOf(nodes, id) == nodes[CHOOSE i \in 1..Len(nodes) : nodes[i].id = id]

\* self.nodes[branch_id] = {...}: a known identifier keeps its position
StoreNode(nodes, node) ==
    IF InNodes(nodes, node.id)
    THEN [i \in 1..Len(nodes) |-> IF nodes[i].id = node.id THEN node ELSE nodes[i]]
    ELSE Append(nodes, node)

\* the dict of the entry still held by the call that stored it
SyncNode(nodes, serial, dict) ==
    [i \in 1..Len(nodes) |->
        IF nodes[i].serial = serial THEN [nodes[i] EXCEPT !.dict = dict] ELSE nodes[i]]

Max(a, b) == IF a >= b THEN a ELSE b

RECURSIVE setNodes(_, _, _)
RECURSIVE SetNodesList(_, _, _, _)
RECURSIVE SetNodesProps(_, _, _)

\* the loop over a list-valued property: items is the list, done the items
\* already visited
SetNodesList(items, done, nodeprop, graph) ==
    IF items = <<>> THEN [graph |-> graph, items |-> done]
    ELSE LET ncand == items[1]
         IN  IF ncand.t = "dict"
             THEN IF IsIdOnly(ncand)
                  THEN SetNodesList(Tail(items), Append(done, DictGet(ncand, AtId)),
                                    nodeprop, graph)
                  ELSE LET r == setNodes(ncand, nodeprop, graph)
                       IN  SetNodesList(Tail(items), Append(done, r.branch), nodeprop, r.graph)
             ELSE SetNodesList(Tail(items), Append(done, ncand), nodeprop, graph)

\* the loop over list(branch.keys())
SetNodesProps(keys, branch, graph) ==
    IF keys = <<>> THEN [graph |-> graph, branch |-> branch]
    ELSE LET nodeprop == keys[1]
             nodecand == DictGet(branch, nodeprop)
         IN  IF nodecand.t = "list"
             THEN LET r == SetNodesList(nodecand.v, <<>>, nodeprop, graph)
                  IN  SetNodesProps(Tail(keys), DictSet(branch, nodeprop, VList(r.items)),
                                    r.graph)
             ELSE IF nodecand.t = "dict"
             THEN IF IsIdOnly(nodecand)
                  THEN SetNodesProps(Tail(keys),
                                     DictSet(branch, nodeprop, DictGet(nodecand, AtId)), graph)
                  ELSE LET fresh == ~HasKey(nodecand, AtId)
                           node_id == IF fresh THEN VStr(GeneratedId(graph.made + 1))
                                      ELSE DictGet(nodecand, AtId)
                           counted == IF fresh THEN [graph EXCEPT !.made = @ + 1] ELSE graph
                           r == setNodes(DictSet(nodecand, AtId, node_id), nodeprop, counted)
                       IN  SetNodesProps(Tail(keys), DictSet(branch, nodeprop, node_id),
                                         r.graph)
             ELSE SetNodesProps(Tail(keys), branch, graph)

\* _setNodes(branch, fromprop): the graph afterwards and the branch as the
\* call leaves it (with its '@id')
setNodes(branch, fromprop, graph) ==
    IF branch.t # "dict" \/ IsIdOnly(branch) THEN [graph |-> graph, branch |-> branch]
    ELSE LET fresh == ~HasKey(branch, AtId)
             branch_id == IF fresh THEN VStr(GeneratedId(graph.made + 1))
                          ELSE DictGet(branch, AtId)
             identified == DictSet(branch, AtId, branch_id)
             noprops == Len(identified.v)
             stripped == strip_node_prefixes(identified)
             serial == graph.stored + 1
             stored == [nodes |-> StoreNode(graph.nodes,
                                            Node(branch_id.v, stripped, noprops, fromprop, serial)),
                        properties |-> Max(graph.properties, noprops),
                        made |-> IF fresh THEN graph.made + 1 ELSE graph.made,
                        stored |-> serial]
             keys == [i \in 1..Len(stripped.v) |-> stripped.v[i].key]
             r == SetNodesProps(keys, stripped, stored)
         IN  [graph |-> [r.graph EXCEPT !.nodes = SyncNode(@, serial, r.branch)],
              branch |-> identified]

-----------------------------------------------------------------------------
(* JSONGraph._setNodesInfo.  A score is kept as the fraction num/den of     *)
(* prp_score + sbj_score / 2, so that scores are compared exactly.          *)

\* outcands: the string values and the string items of list values of every
\* property but '@id'
RECURSIVE OutCands(_)
OutCands(items) ==
    IF items = <<>> THEN <<>>
    ELSE LET value == items[1].val
             here == IF items[1].key = AtId THEN <<>>
                     ELSE IF value.t = "str" THEN <<value.v>>
                     ELSE IF value.t = "list"
                     THEN LET strs == SelectSeq(value.v, LAMBDA x : x.t = "str")
                          IN  [i \in 1..Len(strs) |-> strs[i].v]
                     ELSE <<>>
         IN  here \o OutCands(Tail(items))

Bump(nodes, id, field) ==
    [i \in 1..Len(nodes) |->
        IF nodes[i].id = id
        THEN IF field = "inlinks" THEN [nodes[i] EXCEPT !.inlinks = @ + 1]
             ELSE [nodes[i] EXCEPT !.outlinks = @ + 1]
        ELSE nodes[i]]

\* the loop over outcands of the node nodekey; info holds nodes and
\* self._stats
RECURSIVE CountLinks(_, _, _)
CountLinks(outcands, nodekey, info) ==
    IF outcands = <<>> THEN info
    ELSE LET linkid == outcands[1]
         IN  IF InNodes(info.nodes, linkid)
             THEN LET linked == Bump(Bump(info.nodes, linkid, "inlinks"), nodekey, "outlinks")
                      target == NodeOf(linked, linkid)
                  IN  CountLinks(Tail(outcands), nodekey,
                                 [info EXCEPT !.nodes = linked,
                                              !.inlinks = IF target.inlinks >= @
                                                          THEN target.inlinks ELSE @,
                                              !.outlinks = IF target.outlinks >= @
                                                           THEN target.outlinks ELSE @])
             ELSE CountLinks(Tail(outcands), nodekey, info)

\* comb_score of a node as a fraction
ScoreNum(node, info) ==
    IF info.inlinks > 0
    THEN 4 * info.inlinks * node.properties
         + info.properties * (info.inlinks - node.inlinks)
    ELSE 4 * node.properties

ScoreDen(info) ==
    IF info.inlinks > 0 THEN 4 * info.properties * info.inlinks ELSE 4 * info.properties

\* the loop over self.nodes.items(), from the k-th node on
RECURSIVE ScoreNodes(_, _)
ScoreNodes(k, info) ==
    IF k > Len(info.nodes) THEN info
    ELSE LET nodekey == info.nodes[k].id
             counted == CountLinks(OutCands(info.nodes[k].dict.v), nodekey, info)
             num == ScoreNum(counted.nodes[k], counted)
             den == ScoreDen(counted)
         IN  ScoreNodes(k + 1,
                        IF num * counted.score_den > counted.score_num * den
                        THEN [counted EXCEPT !.mainNode = nodekey,
                                             !.score_num = num, !.score_den = den]
                        ELSE counted)

\* _setNodesInfo on the graph built by _setNodes
setNodesInfo(graph) ==
    ScoreNodes(1, [nodes |-> graph.nodes, properties |-> graph.properties,
                   inlinks |-> 0, outlinks |-> 0, mainNode |-> NoneStr,
                   score_num |-> 0, score_den |-> 1])

-----------------------------------------------------------------------------
(* JSONGraph.expandNode.  walk holds memo (its keys), expanding, and whether *)
(* the ValueError of a circular reference was raised.                        *)

NewWalk == [memo |-> {}, expanding |-> {}, raised |-> FALSE]

BackReference(node_id) == VDict(<<Item(AtId, node_id)>>)

RECURSIVE expandNode(_, _, _)
RECURSIVE ExpandList(_, _, _, _)
RECURSIVE ExpandProps(_, _, _, _, _)

\* [self.expandNode(item, memo, expanding) for item in value]
ExpandList(items, done, nodes, walk) ==
    IF items = <<>> \/ walk.raised THEN [val |-> VList(done), walk |-> walk]
    ELSE LET r == expandNode(items[1], nodes, walk)
         IN  ExpandList(Tail(items), Append(done, r.val), nodes, r.walk)

\* the loop over node.items()
ExpandProps(items, node_id, expanded, nodes, walk) ==
    IF items = <<>> \/ walk.raised THEN [val |-> expanded, walk |-> walk]
    ELSE LET key == items[1].key
             value == items[1].val
             r == IF key = KeyUrl THEN [val |-> value, walk |-> walk]
                  ELSE IF value.t = "str"
                  THEN IF InNodes(nodes, value.v) /\ value # node_id
                       THEN expandNode(NodeOf(nodes, value.v).dict, nodes, walk)
                       ELSE [val |-> value, walk |-> walk]
                  ELSE IF value.t = "list" THEN ExpandList(value.v, <<>>, nodes, walk)
                  ELSE IF value.t = "dict" THEN expandNode(value, nodes, walk)
                  ELSE [val |-> value, walk |-> walk]
         IN  ExpandProps(Tail(items), node_id, DictSet(expanded, key, r.val), nodes, r.walk)

\* the rebuild that keeps no record of the nodes already expanded
expandNode_without_memo(node, nodes, walk) ==
    IF node.t = "str"
    THEN IF InNodes(nodes, node.v)
         THEN expandNode(NodeOf(nodes, node.v).dict, nodes, walk)
         ELSE [val |-> node, walk |-> walk]
    ELSE IF node.t # "dict" THEN [val |-> node, walk |-> walk]
    ELSE LET node_id == DictGet(node, AtId)
             named == IsTruthy(node_id)
         IN  IF named /\ node_id.v \in walk.expanding
             THEN [val |-> VNull, walk |-> [walk EXCEPT !.raised = TRUE]]
             ELSE LET entered == IF named
                                 THEN [walk EXCEPT !.expanding = @ \cup {node_id.v}]
                                 ELSE walk
                      r == ExpandProps(node.v, node_id, VDict(<<>>), nodes, entered)
                  IN  IF r.walk.raised THEN r
                      ELSE [val |-> r.val,
                            walk |-> IF named
                                     THEN [r.walk EXCEPT !.expanding = @ \ {node_id.v}]
                                     ELSE r.walk]

expandNode(node, nodes, walk) ==
    IF node.t = "str"
    THEN IF InNodes(nodes, node.v)
         THEN expandNode(NodeOf(nodes, node.v).dict, nodes, walk)
         ELSE [val |-> node, walk |-> walk]
    ELSE IF node.t # "dict" THEN [val |-> node, walk |-> walk]
    ELSE LET node_id == DictGet(node, AtId)
             named == IsTruthy(node_id)
         IN  IF named /\ node_id.v \in walk.memo
             THEN [val |-> BackReference(node_id), walk |-> walk]
             ELSE IF named /\ node_id.v \in walk.expanding
             THEN [val |-> VNull, walk |-> [walk EXCEPT !.raised = TRUE]]
             ELSE LET entered == IF named
                                 THEN [walk EXCEPT !.memo = @ \cup {node_id.v},
                                                   !.expanding = @ \cup {node_id.v}]
                                 ELSE walk
                      r == ExpandProps(node.v, node_id, VDict(<<>>), nodes, entered)
                  IN  IF r.walk.raised THEN r
                      ELSE [val |-> r.val,
                            walk |-> IF named
                                     THEN [r.walk EXCEPT !.expanding = @ \ {node_id.v}]
                                     ELSE r.walk]

-----------------------------------------------------------------------------
(* JSONGraph.parse and JSONGraph.getNodesByType *)

\* for branch in branches: self._setNodes(branch)
RECURSIVE SetBranches(_, _)
SetBranches(branches, graph) ==
    IF branches = <<>> THEN graph
    ELSE SetBranches(Tail(branches), setNodes(branches[1], NoneStr, graph).graph)

Branches_whole_document(document) ==
    IF document.t = "list" /\ IsTruthy(document) THEN document ELSE VList(<<document>>)

\* branches: the list itself, the '@graph' member, or the document alone
Branches(document) ==
    LET found == IF document.t = "list" THEN document ELSE DictGet(document, AtGraph)
    IN  IF ~IsTruthy(found) THEN VList(<<document>>) ELSE found

Parsed(outcome, nodes, main, jsonld) ==
    [outcome |-> outcome, nodes |-> nodes, mainNode |-> main, jsonld |-> jsonld]

\* parse(jsonstr, rootNodeID): document is json.loads(jsonstr), rootNodeID
\* is NoneStr when it is not given.  The outcome is "ok", or the exception
\* that leaves parse.
parse(document, rootNodeID) ==
    IF document.t \notin {"list", "dict"}
    THEN Parsed("AttributeError", <<>>, NoneStr, document)
    ELSE
    LET branches == Branches(document)
    IN  IF branches.t # "list" THEN Parsed("ok", <<>>, NoneStr, document)
        ELSE
        LET info == setNodesInfo(SetBranches(branches.v, EmptyGraph))
            root_id == IF ~Falsy(rootNodeID) /\ InNodes(info.nodes, rootNodeID)
                       THEN rootNodeID
                       ELSE info.mainNode
        IN  IF ~InNodes(info.nodes, root_id)
            THEN Parsed("KeyError", info.nodes, info.mainNode, document)
            ELSE LET r == expandNode(NodeOf(info.nodes, root_id).dict, info.nodes, NewWalk)
                 IN  IF r.walk.raised
                     THEN Parsed("ValueError", info.nodes, info.mainNode, document)
                     ELSE Parsed("ok", info.nodes, info.mainNode, r.val)

\* node_types of a node; {} when the node has no '@type'
NodeTypes(node) ==
    LET types == DictGet(node.dict, AtType)
    IN  IF types.t = "str" THEN {local_name(types.v)}
        ELSE IF types.t = "list" THEN {local_name(types.v[i].v) : i \in 1..Len(types.v)}
        ELSE {}

Selected(node, main, target_types, excludeMainEntity) ==
    /\ NodeTypes(node) \cap target_types # {}
    /\ excludeMainEntity => main # node.id

\* getNodesByType(target_type, excludeMainEntity): the results, in the order
\* of self.nodes
RECURSIVE getNodesByType(_, _, _, _, _)
getNodesByType(k, nodes, main, target_types, excludeMainEntity) ==
    IF k > Len(nodes) THEN <<>>
    ELSE (IF Selected(nodes[k], main, target_types, excludeMainEntity)
          THEN <<[graph |-> expandNode(VStr(nodes[k].id), nodes, NewWalk).val,
                  from_prop |-> nodes[k].from_prop]>>
          ELSE <<>>)
         \o getNodesByType(k + 1, nodes, main, target_types, excludeMainEntity)

-----------------------------------------------------------------------------
(* MetadataHelper: what the extractors of the self-hosted harvest make of   *)
(* the landing page.  An extractor's dictionary is a lookup value,          *)
(* Found(1, m) for a dictionary that is not empty and NoResult for {}, with *)
(* the value of its 'services' key beside it.                               *)

KeyName == <<"n", "a", "m", "e">>

KeyHeadline == <<"h", "e", "a", "d", "l", "i", "n", "e">>

KeyTitle == <<"t", "i", "t", "l", "e">>

KeyIdentifier == <<"i", "d", "e", "n", "t", "i", "f", "i", "e", "r">>

KeyGraph == <<"g", "r", "a", "p", "h">>

KeyFromProp == <<"f", "r", "o", "m", "_", "p", "r", "o", "p">>

KeyTarget == <<"t", "a", "r", "g", "e", "t">>

KeyEndpointURL == <<"e", "n", "d", "p", "o", "i", "n", "t", "U", "R", "L">>

KeyLandingPage == <<"l", "a", "n", "d", "i", "n", "g", "P", "a", "g", "e">>

WebAPI == <<"W", "e", "b", "A", "P", "I">>

DataService == <<"D", "a", "t", "a", "S", "e", "r", "v", "i", "c", "e">>

SearchAction == <<"S", "e", "a", "r", "c", "h", "A", "c", "t", "i", "o", "n">>

KeyWasGeneratedBy == <<"p", "r", "o", "v", ":", "w", "a", "s", "G", "e", "n", "e", "r", "a", "t", "e", "d", "B", "y">>

KeyHadPrimarySource == <<"p", "r", "o", "v", ":", "h", "a", "d", "P", "r", "i", "m", "a", "r", "y", "S", "o", "u", "r", "c", "e">>

KeyProvName == <<"p", "r", "o", "v", ":", "n", "a", "m", "e">>

KeyDctTitle == <<"d", "c", "t", ":", "t", "i", "t", "l", "e">>

KeyDctIdentifier == <<"d", "c", "t", ":", "i", "d", "e", "n", "t", "i", "f", "i", "e", "r">>

KeyDcatService == <<"d", "c", "a", "t", ":", "s", "e", "r", "v", "i", "c", "e">>

KeyDctDescription == <<"d", "c", "t", ":", "d", "e", "s", "c", "r", "i", "p", "t", "i", "o", "n">>

CatalogRecord == <<"d", "c", "a", "t", ":", "C", "a", "t", "a", "l", "o", "g", "R", "e", "c", "o", "r", "d">>

ProvActivity == <<"p", "r", "o", "v", ":", "A", "c", "t", "i", "v", "i", "t", "y">>

ActivityName == <<"M", "e", "t", "a", "d", "a", "t", "a", " ", "h", "a", "r", "v", "e", "s", "t", "i", "n", "g", " ", "a", "n", "d", " ", "e", "x", "t", "r", "a", "c", "t", "i", "o", "n", " ", "a", "c", "t", "i", "v", "i", "t", "y">>

DataServiceType == <<"d", "c", "a", "t", ":", "D", "a", "t", "a", "S", "e", "r", "v", "i", "c", "e">>

TypeRe3Api == <<"r", "e", "3", "d", "a", "t", "a", ":", "A", "P", "I", ":", "X">>

StatusValid == <<"v", "a", "l", "i", "d">>

StatusInvalid == <<"i", "n", "v", "a", "l", "i", "d">>

Http == <<"h", "t", "t", "p">>

\* x.get(key) of a JMESPath field: null when x is no object
Member(x, key) == IF x.t = "dict" THEN DictGet(x, key) ELSE VNull

\* a || b || ...: the value of the first key whose value counts as true
RECURSIVE FirstOf(_, _)
FirstOf(node, keys) ==
    IF keys = <<>> THEN VNull
    ELSE IF IsTruthy(Member(node, keys[1])) THEN Member(node, keys[1])
    ELSE FirstOf(node, Tail(keys))

\* the strings a flattened member contributes: the string itself, or the
\* strings of the list
Strings(x) ==
    IF x.t = "str" THEN <<x.v>>
    ELSE IF x.t = "list"
    THEN LET strs == SelectSeq(x.v, LAMBDA e : e.t = "str")
         IN  [i \in 1..Len(strs) |-> strs[i].v]
    ELSE <<>>

\* REPO_INFO_QUERY as JSONGraph.query returns it, members title and
\* identifier
RepoInfo(jsonld) ==
    LET title == FirstOf(jsonld, <<KeyName, KeyHeadline, KeyTitle>>)
    IN  [title |-> IF title.t = "str" THEN title.v ELSE NoneStr,
         identifier |-> Strings(Member(jsonld, AtId)) \o Strings(Member(jsonld, KeyIdentifier))]

\* one service entry of a metadata dictionary
ServiceEntry(endpoint_uri, type) ==
    [endpoint_uri |-> endpoint_uri, type |-> type, validation_status |-> <<>>]

\* SERVICE_INFO_QUERY, member endpoint_uri, searched in one entry of
\* getNodesByType, the dictionary {'graph': ..., 'from_prop': ...}
ServiceEndpoint(entry) ==
    FirstOf(VDict(<<Item(KeyGraph, entry.graph),
                    Item(KeyFromProp, IF entry.from_prop = NoneStr THEN VNull
                                      ELSE VStr(entry.from_prop))>>),
            <<KeyUrl, KeyTarget, KeyEndpointURL, KeyLandingPage>>)

\* the local type names get_jsonld_metadata_simple asks for
Service == <<"S", "e", "r", "v", "i", "c", "e">>

ServiceKinds == {Service, WebAPI, DataService, SearchAction}

\* what an extractor returns
Extract(r, services) == [r |-> r, services |-> services]

NoExtract == Extract(NoResult, <<>>)

\* the service dictionaries of the entries found to have an endpoint_uri
EndpointServices(found) ==
    [i \in 1..Len(found) |-> ServiceEntry(Strings(ServiceEndpoint(found[i]))[1], <<>>)]

\* the loop over sg.getNodesByType([...]): the entries whose endpoint_uri
\* is truthy
ServicesOf(entries) ==
    EndpointServices(SelectSeq(entries, LAMBDA e : IsTruthy(ServiceEndpoint(e))))

\* sg.query(REPO_INFO_QUERY) and the services, for the parsed graph sg
Queried(sg) ==
    IF sg.outcome # "ok" \/ sg.jsonld.t = "null"
    THEN [raised |-> TRUE, extract |-> NoExtract, nodes |-> sg.nodes]
    ELSE [raised |-> FALSE,
          extract |-> Extract(Found(1, RepoInfo(sg.jsonld)),
                              ServicesOf(getNodesByType(1, sg.nodes, sg.mainNode,
                                                        ServiceKinds, TRUE))),
          nodes |-> sg.nodes]

\* get_jsonld_metadata_simple(jstr) for the document of jstr: the
\* dictionary, the node table of the JSONGraph it made, and whether an
\* exception left it
get_jsonld_metadata_simple(document) == Queried(parse(document, NoneStr))

\* metadata.update(extracted)
Update(acc, extracted) ==
    IF acc.r.outcome # "record" THEN extracted
    ELSE Extract(Found(1, [title |-> IF extracted.r.meta.title = NoneStr
                                     THEN acc.r.meta.title
                                     ELSE extracted.r.meta.title,
                           identifier |-> extracted.r.meta.identifier]),
                 IF extracted.services = <<>> THEN acc.services ELSE extracted.services)

\* get_embedded_jsonld_metadata('simple'): scripts are the documents of the
\* script elements that json.loads accepts; an exception of a script ends
\* the loop with what the scripts before it gave
RECURSIVE get_embedded_jsonld_metadata(_, _)
get_embedded_jsonld_metadata(scripts, acc) ==
    IF scripts = <<>> THEN acc
    ELSE LET Extracted(e) ==
                 IF e.raised THEN acc
                 ELSE get_embedded_jsonld_metadata(Tail(scripts), Update(acc, e.extract))
         IN  Extracted(get_jsonld_metadata_simple(scripts[1]))

\* the node table of the last JSONGraph the embedded scripts were parsed in
RECURSIVE LastNodes(_, _)
LastNodes(scripts, nodes) ==
    IF scripts = <<>> THEN nodes
    ELSE LET Parsed_in(e) ==
                 IF e.raised THEN e.nodes ELSE LastNodes(Tail(scripts), e.nodes)
         IN  Parsed_in(get_jsonld_metadata_simple(scripts[1]))

\* the content of the meta elements "description", "publisher" and "title";
\* NoneStr for an element the page does not have
Tags(description, publisher, title) ==
    [description |-> description, publisher |-> publisher, title |-> title]

NoTags == Tags(NoneStr, NoneStr, NoneStr)

\* desc[0].strip() of an element the page has
TagValue(content) == IF content = NoneStr THEN <<>> ELSE Strip(content)

get_html_meta_tags_metadata(tags) ==
    IF TagValue(tags.description) = <<>> /\ TagValue(tags.publisher) = <<>>
       /\ TagValue(tags.title) = <<>>
    THEN NoExtract
    ELSE Extract(Found(1, [title |-> IF TagValue(tags.title) = <<>> THEN NoneStr
                                     ELSE TagValue(tags.title),
                           identifier |-> <<>>]),
                 <<>>)

\* one link of signposting_helper.get_links and what a GET of it answers:
\* status_code is NoStatus for a request that fails
TypedLink(link, status_code, document) ==
    [link |-> link, status_code |-> status_code, document |-> document]

\* the dictionary get_linked_jsonld_metadata is left with: an exception
\* of get_jsonld_metadata_simple is swallowed
LinkedExtract(e) == IF e.raised THEN NoExtract ELSE e.extract

\* get_linked_jsonld_metadata(typed_link, 'simple')
get_linked_jsonld_metadata(typed_link) ==
    IF ~Contains(typed_link.link, Http) \/ typed_link.status_code # 200 THEN NoExtract
    ELSE LinkedExtract(get_jsonld_metadata_simple(typed_link.document))

\* the dictionary of an extractor that only discovers services
Discovered(services) ==
    IF services = <<>> THEN NoExtract ELSE Extract(Found(1, NoMeta), services)

\* the anchors of the links in the order of their first appearance
RECURSIVE Anchors(_, _)
Anchors(links, seen) ==
    IF links = <<>> THEN seen
    ELSE Anchors(Tail(links),
                 IF \E i \in 1..Len(seen) : seen[i] = links[1].anchor
                 THEN seen ELSE Append(seen, links[1].anchor))

\* get_fairicat_metadata: one service for each anchor of the 'service-doc'
\* and 'service-meta' links
get_fairicat_metadata(links) ==
    LET anchors == Anchors(links, <<>>)
    IN  Discovered([i \in 1..Len(anchors) |-> ServiceEntry(anchors[i], <<>>)])

\* get_feed_metadata: one service for each feed link
get_feed_metadata(links) ==
    Discovered([i \in 1..Len(links) |-> ServiceEntry(links[i].link, <<>>)])

\* get_sitemap_service_metadata: robots is the answer for robots.txt,
\* sitemap the URL of its first "Sitemap:" line
get_sitemap_service_metadata(robots) ==
    Discovered(IF robots.status_code = 200 /\ robots.sitemap # NoneStr
               THEN <<ServiceEntry(robots.sitemap, <<>>)>>
               ELSE <<>>)

\* what the landing page and the requests of the extractors give:
\* describedby, fairicat and feed are the results of get_links, and
\* links_fail tells that the first get_links raises
Page(scripts, tags, links_fail, describedby, fairicat, feed, robots) ==
    [scripts |-> scripts, tags |-> tags, links_fail |-> links_fail,
     describedby |-> describedby, fairicat |-> fairicat, feed |-> feed,
     robots |-> robots]

NoRobots == [status_code |-> 404, sitemap |-> NoneStr]

NoPage == Page(<<>>, NoTags, FALSE, <<>>, <<>>, <<>>, NoRobots)

\* a run that has not been given its answers
NoRun == [url |-> NoneStr, page |-> NoPage, re3data |-> NoResult, fairsharing |-> NoResult]

-----------------------------------------------------------------------------
(* Inputs of the hostname specification: every dotted name of up to        *)
(* MaxLabels labels over HostLabels, plus None, "" and "www."              *)

HostLabels == {<<"w", "w", "w">>, <<"W", "w", "w">>, <<"a">>, <<"A">>, <<"b">>}

RECURSIVE JoinDots(_)
JoinDots(ls) ==
    IF Len(ls) = 0 THEN <<>>
    ELSE IF Len(ls) = 1 THEN ls[1]
    ELSE ls[1] \o <<".">> \o JoinDots(Tail(ls))

LabelSeqs == UNION {[1..n -> HostLabels] : n \in 1..MaxLabels}

Hostnames == {JoinDots(ls) : ls \in LabelSeqs} \cup {NoneStr, <<>>, WwwDot}

Pending == [re3 |-> FALSE, fs |-> FALSE, done |-> FALSE]

IdleHostnames ==
    /\ query_hostname = NoneStr
    /\ record_hostname = NoneStr
    /\ match_result = Pending

IdleSearch ==
    /\ search_case = "idle"
    /\ search_data = <<>>
    /\ search_out = NoResult

IdleRegistry ==
    /\ pc = "idle"
    /\ catalog_url = NoneStr
    /\ jwt_token = NoneStr
    /\ re3data_meta = NoResult
    /\ fairsharing_meta = NoResult
    /\ metadata = <<>>
    /\ calls = <<>>

NoConfig == [key |-> NoneStr, suffix |-> <<>>, accept |-> <<>>]

IdleValidator ==
    /\ v_pc = "idle"
    /\ v_url = NoneStr
    /\ v_api_type = NoneStr
    /\ protocol_configs = NoConfig
    /\ v_probes = <<>>
    /\ v_recovery_url = NoneStr
    /\ v_outcome = NoOutcome

NoTarget == [types |-> {}, excludeMainEntity |-> TRUE]

IdleGraph ==
    /\ g_pc = "idle"
    /\ g_graph = <<>>
    /\ g_shape = "none"
    /\ g_document = VNull
    /\ g_rootNodeID = NoneStr
    /\ g_nodes = <<>>
    /\ g_mainNode = NoneStr
    /\ g_jsonld = VNull
    /\ g_target = NoTarget
    /\ g_results = <<>>

IdleHarvest ==
    /\ h_fetch = "none"
    /\ h_page = NoPage
    /\ h_next = 0
    /\ h_services = <<>>
    /\ h_records = <<>>
    /\ h_raised = ""

Instances == {"one", "two"}

IdleConcurrent ==
    /\ c_pc = [i \in Instances |-> "idle"]
    /\ c_input = [i \in Instances |-> NoRun]
    /\ c_nodes = [i \in Instances |-> <<>>]
    /\ c_metadata = [i \in Instances |-> <<>>]
    /\ c_records = [i \in Instances |-> <<>>]

\* no request is being served
NoHarvests == [fetched |-> FALSE, crosswalk |-> FALSE, result |-> VNull,
               legacy_raises |-> FALSE, legacy_metadata |-> VList(<<>>)]

NoResponse == [status |-> 0, repoURI |-> NoneStr, metadata |-> VNull, services |-> VNull]

IdleController ==
    /\ k_pc = "idle"
    /\ k_url = NoneStr
    /\ k_env = NoHarvests
    /\ k_mscr = "none"
    /\ k_legacy = "none"
    /\ k_response = NoResponse

InitHostnames ==
    /\ query_hostname \in Hostnames
    /\ record_hostname \in Hostnames
    /\ match_result = Pending
    /\ IdleSearch
    /\ IdleRegistry
    /\ IdleValidator
    /\ IdleGraph
    /\ IdleHarvest
    /\ IdleConcurrent
    /\ IdleController

MatchHostnames ==
    /\ ~match_result.done
    /\ match_result' = [re3 |-> Re3_hostnames_match(query_hostname, record_hostname),
                        fs |-> FS_hostnames_match(query_hostname, record_hostname),
                        done |-> TRUE]
    /\ UNCHANGED <<query_hostname, record_hostname>>
    /\ UNCHANGED <<searchVars, regVars, valVars, graphVars, harvestVars, concVars, ctrlVars>>

NextHostnames == MatchHostnames

SpecHostnames == InitHostnames /\ [][NextHostnames]_vars

-----------------------------------------------------------------------------
(* One search of a registry client over every candidate list of up to      *)
(* MaxCands entries                                                         *)

Statuses == {"ready", "deprecated", "unknown"}

FSHostnameCands ==
    {FSRecord(TRUE, ty, hp, DoiOther, st, TitleRepo, <<NoneStr>>) :
        ty \in {"fairsharing_records", "other"},
        hp \in {UrlAB, UrlCAB, UrlXY},
        st \in Statuses}

FSDoiCands ==
    {FSRecord(TRUE, "fairsharing_records", hp, doi, st, TitleRepo, <<NoneStr>>) :
        hp \in {UrlAB, UrlXY},
        doi \in {DoiLower, DoiOther, NoneStr},
        st \in Statuses}

Re3HostnameCands ==
    {Re3Candidate(id, NameOther, Re3Detail(ok, url, TitleRepo, <<>>, "absent", st)) :
        id \in {R3dId, NoneStr},
        ok \in BOOLEAN,
        url \in {UrlAB, UrlXY},
        st \in {"deprecated", "unknown"}}

Re3NameCands ==
    {Re3Candidate(id, nm, Re3Detail(ok, UrlXY, TitleRepo, <<>>, "absent", st)) :
        id \in {R3dId, NoneStr},
        nm \in {NameMyRepo, NameOther},
        ok \in BOOLEAN,
        st \in {"deprecated", "unknown"}}

ListsOf(S) == UNION {[1..n -> S] : n \in 0..MaxCands}

Ok(data) == [kind |-> "ok", data |-> data]

InitSearch ==
    /\ search_case \in {"fs_hostname", "fs_id", "re3_hostname", "re3_name"}
    /\ search_data \in CASE search_case = "fs_hostname" -> ListsOf(FSHostnameCands)
                         [] search_case = "fs_id" -> ListsOf(FSDoiCands)
                         [] search_case = "re3_hostname" -> ListsOf(Re3HostnameCands)
                         [] OTHER -> ListsOf(Re3NameCands)
    /\ search_out = [outcome |-> "pending", idx |-> 0, meta |-> NoMeta]
    /\ IdleHostnames
    /\ IdleRegistry
    /\ IdleValidator
    /\ IdleGraph
    /\ IdleHarvest
    /\ IdleConcurrent
    /\ IdleController

FSSearchByHostname ==
    /\ search_case = "fs_hostname"
    /\ search_out.outcome = "pending"
    /\ search_out' = FS_search_fairsharing(HostAB, HostAB, NoneStr, Ok(search_data))
    /\ UNCHANGED <<search_case, search_data, hostVars, regVars, valVars, graphVars, harvestVars, concVars, ctrlVars>>

FSSearchById ==
    /\ search_case = "fs_id"
    /\ search_out.outcome = "pending"
    /\ search_out' = FS_harvest_by_id(FsId, Ok(search_data))
    /\ UNCHANGED <<search_case, search_data, hostVars, regVars, valVars, graphVars, harvestVars, concVars, ctrlVars>>

Re3SearchByHostname ==
    /\ search_case = "re3_hostname"
    /\ search_out.outcome = "pending"
    /\ search_out' = Re3_search_and_verify(HostAB, "hostname", Ok(search_data))
    /\ UNCHANGED <<search_case, search_data, hostVars, regVars, valVars, graphVars, harvestVars, concVars, ctrlVars>>

Re3SearchByName ==
    /\ search_case = "re3_name"
    /\ search_out.outcome = "pending"
    /\ search_out' = Re3_search_and_verify(TitleRepo, "name", Ok(search_data))
    /\ UNCHANGED <<search_case, search_data, hostVars, regVars, valVars, graphVars, harvestVars, concVars, ctrlVars>>

NextSearch ==
    \/ FSSearchByHostname
    \/ FSSearchById
    \/ Re3SearchByHostname
    \/ Re3SearchByName

SpecSearch == InitSearch /\ [][NextSearch]_vars

-----------------------------------------------------------------------------
(* RepositoryHarvester.harvest_registry_metadata, one action per stretch of *)
(* code that ends with a request to a registry                              *)

OrchFSRecords ==
    {FSRecord(TRUE, "fairsharing_records", hp, doi, st, nm, xr) :
        hp \in {UrlAB, UrlXY, UrlL},
        doi \in {DoiLower, DoiOther},
        st \in {"ready", "deprecated"},
        nm \in {TitleRepo, NoneStr},
        xr \in {<<NoneStr>>, <<R3dId>>, <<R3dUrl>>}}
    \cup {FSRecord(FALSE, "fairsharing_records", NoneStr, NoneStr, "unknown", NoneStr, <<NoneStr>>)}

OrchRe3Details ==
    {Re3Detail(TRUE, url, TitleRepo, ids, ct, "unknown") :
        url \in {UrlAB, UrlXY},
        ids \in {<<>>, <<FsId>>},
        ct \in {"absent", "email", "empty"}}
    \cup {Re3Detail(FALSE, NoneStr, NoneStr, <<>>, "absent", "unknown")}

OrchRe3Cands ==
    {Re3Candidate(id, nm, d) :
        id \in {R3dId, NoneStr}, nm \in {NameMyRepo, NameOther}, d \in OrchRe3Details}

ResultLists(S) == UNION {[1..n -> S] : n \in 0..MaxResults}

FSResponses ==
    {[kind |-> "401", data |-> <<>>], [kind |-> "error", data |-> <<>>]}
    \cup {Ok(l) : l \in ResultLists(OrchFSRecords)}

Re3Responses ==
    {[kind |-> "error", data |-> <<>>]} \cup {Ok(l) : l \in ResultLists(OrchRe3Cands)}

CatalogUrls == {UrlAB, UrlL, UrlNoHost}

\* one request of the log: the registry, the kind of request, its argument
\* and what the lookup it belongs to returned
Call(reg, op, arg, res) == [registry |-> reg, op |-> op, arg |-> arg, result |-> res]

Init ==
    /\ pc = "start"
    /\ catalog_url \in CatalogUrls
    /\ jwt_token = NoneStr
    /\ re3data_meta = NoResult
    /\ fairsharing_meta = NoResult
    /\ metadata = <<>>
    /\ calls = <<>>
    /\ IdleHostnames
    /\ IdleSearch
    /\ IdleValidator
    /\ IdleGraph
    /\ IdleHarvest
    /\ IdleConcurrent
    /\ IdleController

\* FAIRsharingHarvester(): _authenticate with the credentials of the
\* environment; resp is "error", "no_jwt" or "jwt"
Construct ==
    /\ pc = "start"
    /\ \E credentials \in BOOLEAN, resp \in {"error", "no_jwt", "jwt"} :
          /\ jwt_token' = IF credentials /\ resp = "jwt" THEN Jwt ELSE NoneStr
          /\ calls' = IF credentials
                      THEN Append(calls, Call("fairsharing", "authenticate", NoneStr,
                                              IF resp = "jwt" THEN "record" ELSE "none"))
                      ELSE calls
    /\ pc' = "re3_first"
    /\ UNCHANGED <<catalog_url, re3data_meta, fairsharing_meta, metadata>>
    /\ UNCHANGED <<hostVars, searchVars, valVars, graphVars, harvestVars, concVars, ctrlVars>>

AfterLookup(r, next) == IF r.outcome = "raise" THEN "raised" ELSE next

\* 1. first pass on re3data: Re3DataHarvester.harvest(catalog_url)
Re3First ==
    /\ pc = "re3_first"
    /\ LET hostname == UrlHostname(catalog_url)
       IN  IF Falsy(hostname)
           THEN /\ re3data_meta' = NoResult
                /\ calls' = calls
                /\ pc' = "fs"
           ELSE \E resp \in Re3Responses :
                  LET r == Re3_search_and_verify(hostname, "hostname", resp)
                  IN  /\ re3data_meta' = r
                      /\ calls' = Append(calls, Call("re3data", "search_hostname", hostname, r.outcome))
                      /\ pc' = AfterLookup(r, "fs")
    /\ UNCHANGED <<catalog_url, jwt_token, fairsharing_meta, metadata>>
    /\ UNCHANGED <<hostVars, searchVars, valVars, graphVars, harvestVars, concVars, ctrlVars>>

\* the test for "fairsharing" made on the identifier as written
FairsharingIdOf_case_sensitive(r) ==
    IF r.outcome # "record" THEN NoneStr
    ELSE LET ids == r.meta.identifier
             hits == {i \in 1..Len(ids) : Contains(ids[i], Fairsharing)}
         IN  IF hits = {} THEN NoneStr ELSE ids[MinOf(hits)]

\* the first identifier of the re3data record that contains "fairsharing"
FairsharingIdOf(r) ==
    IF r.outcome # "record" THEN NoneStr
    ELSE LET ids == r.meta.identifier
             hits == {i \in 1..Len(ids) : Contains(Lower(ids[i]), Fairsharing)}
         IN  IF hits = {} THEN NoneStr ELSE ids[MinOf(hits)]

\* 2. FAIRsharing by the identifier found in the re3data record
FSById ==
    /\ pc = "fs"
    /\ ~Falsy(FairsharingIdOf(re3data_meta))
    /\ \E resp \in FSResponses :
          LET fairsharing_id == FairsharingIdOf(re3data_meta)
              r == FS_harvest_by_id(fairsharing_id, resp)
          IN  /\ fairsharing_meta' = r
              /\ calls' = Append(calls, Call("fairsharing", "search_id", fairsharing_id, r.outcome))
              /\ pc' = AfterLookup(r, "bridge")
    /\ UNCHANGED <<catalog_url, jwt_token, re3data_meta, metadata>>
    /\ UNCHANGED <<hostVars, searchVars, valVars, graphVars, harvestVars, concVars, ctrlVars>>

\* hostname.split('.')[0]
FirstLabel(hostname) == SplitDots(hostname)[1]

\* strategy 2 tried whatever strategy 1 returned
AfterHostnameSearch_without_return(r, hostname) ==
    IF r.outcome = "raise" THEN "raised"
    ELSE IF FirstLabel(hostname) # hostname THEN "fs_name"
    ELSE "bridge"

\* what follows strategy 1 in FAIRsharingHarvester.harvest: the exception
\* leaves the method, a record is returned at once, and strategy 2 is
\* tried only when the repository name differs from the hostname
AfterHostnameSearch(r, hostname) ==
    IF r.outcome = "raise" THEN "raised"
    ELSE IF r.outcome = "record" THEN "bridge"
    ELSE IF FirstLabel(hostname) # hostname THEN "fs_name"
    ELSE "bridge"

\* 2. FAIRsharingHarvester.harvest(catalog_url) up to and including
\* strategy 1, the search by hostname
FSHarvestHostname ==
    /\ pc = "fs"
    /\ Falsy(FairsharingIdOf(re3data_meta))
    /\ LET hostname == UrlHostname(catalog_url)
       IN  IF Falsy(jwt_token) \/ Falsy(hostname)
           THEN /\ fairsharing_meta' = NoResult
                /\ calls' = calls
                /\ pc' = "bridge"
           ELSE \E resp \in FSResponses :
                  LET r == FS_search_fairsharing(hostname, hostname, NoneStr, resp)
                  IN  /\ calls' = Append(calls, Call("fairsharing", "search_hostname", hostname, r.outcome))
                      /\ fairsharing_meta' = r
                      /\ pc' = AfterHostnameSearch(r, hostname)
    /\ UNCHANGED <<catalog_url, jwt_token, re3data_meta, metadata>>
    /\ UNCHANGED <<hostVars, searchVars, valVars, graphVars, harvestVars, concVars, ctrlVars>>

\* strategy 2 of FAIRsharingHarvester.harvest: the search by repository name
FSHarvestName ==
    /\ pc = "fs_name"
    /\ \E resp \in FSResponses :
          LET hostname == UrlHostname(catalog_url)
              repo_name == FirstLabel(hostname)
              r == FS_search_fairsharing(repo_name, hostname, NoneStr, resp)
          IN  /\ calls' = Append(calls, Call("fairsharing", "search_name", repo_name, r.outcome))
              /\ fairsharing_meta' = r
              /\ pc' = AfterLookup(r, "bridge")
    /\ UNCHANGED <<catalog_url, jwt_token, re3data_meta, metadata>>
    /\ UNCHANGED <<hostVars, searchVars, valVars, graphVars, harvestVars, concVars, ctrlVars>>

\* "r3d" looked for anywhere in the identifier
Re3dataIdOf_anywhere(r) ==
    LET ids == r.meta.identifier
        hits == {i \in 1..Len(ids) : ids[i] # NoneStr /\ Contains(ids[i], R3dPrefix)}
    IN  IF hits = {} THEN NoneStr ELSE ids[MinOf(hits)]

\* the first identifier of the FAIRsharing record that is a string starting
\* with "r3d"
Re3dataIdOf(r) ==
    LET ids == r.meta.identifier
        hits == {i \in 1..Len(ids) : ids[i] # NoneStr /\ StartsWith(ids[i], R3dPrefix)}
    IN  IF hits = {} THEN NoneStr ELSE ids[MinOf(hits)]

\* the chunk put in front of the list
merge_metadata_in_front(chunks, r, source, url) ==
    IF r.outcome # "record" THEN chunks
    ELSE <<[source |-> source,
            metadata |-> IF r.meta.identifier = <<>>
                         THEN [r.meta EXCEPT !.identifier = <<url>>]
                         ELSE r.meta]>> \o chunks

\* merge_metadata(new_metadata, source) applied to the chunk list chunks of
\* the instance whose catalog_url is url
merge_metadata(chunks, r, source, url) ==
    IF r.outcome # "record" THEN chunks
    ELSE Append(chunks,
                [source |-> source,
                 metadata |-> IF r.meta.identifier = <<>>
                              THEN [r.meta EXCEPT !.identifier = <<url>>]
                              ELSE r.meta])

\* 4. merge all collected metadata
Merged(re3, fs) ==
    merge_metadata(merge_metadata(metadata, re3, "re3data", catalog_url),
                   fs, "fairsharing", catalog_url)

Finish(re3, op, arg) ==
    /\ re3data_meta' = re3
    /\ calls' = IF op = "" THEN calls ELSE Append(calls, Call("re3data", op, arg, re3.outcome))
    /\ pc' = AfterLookup(re3, "done")
    /\ metadata' = IF re3.outcome = "raise" THEN metadata ELSE Merged(re3, fairsharing_meta)

\* 3. second pass on re3data (bridge) if the first pass failed, then 4.
Bridge ==
    /\ pc = "bridge"
    /\ IF re3data_meta.outcome = "none" /\ fairsharing_meta.outcome = "record"
       THEN LET re3data_id == Re3dataIdOf(fairsharing_meta)
                title == fairsharing_meta.meta.title
            IN  IF ~Falsy(re3data_id)
                THEN \E d \in OrchRe3Details :
                        Finish(Re3_harvest_by_id(re3data_id, d), "fetch_id", re3data_id)
                ELSE IF ~Falsy(title)
                THEN \E resp \in Re3Responses :
                        Finish(Re3_search_and_verify(title, "name", resp), "search_name", title)
                ELSE Finish(re3data_meta, "", NoneStr)
       ELSE Finish(re3data_meta, "", NoneStr)
    /\ UNCHANGED <<catalog_url, jwt_token, fairsharing_meta>>
    /\ UNCHANGED <<hostVars, searchVars, valVars, graphVars, harvestVars, concVars, ctrlVars>>

Next ==
    \/ Construct
    \/ Re3First
    \/ FSById
    \/ FSHarvestHostname
    \/ FSHarvestName
    \/ Bridge

Spec == Init /\ [][Next]_vars

-----------------------------------------------------------------------------
(* The endpoint validator: one call of validate_url *)

StatusCodes == {200, 400, 404}

Links == {LinkJson, LinkJsonHtml, LinkHtml}

\* the hyperlinks of a page, in document order: up to MaxLinks distinct links
LinkLists ==
    UNION {{l \in [1..n -> Links] : \A i, j \in 1..n : i # j => l[i] # l[j]} :
             n \in 0..MaxLinks}

Histories(target) == {<<>>, <<[status_code |-> 301, url |-> target]>>}

Response(sc, ct, links, swagger, html_ok, history, target) ==
    [kind |-> "ok", status_code |-> sc, content_type |-> ct, links |-> links,
     swagger |-> swagger, html_ok |-> html_ok, history |-> history,
     url |-> IF history = <<>> THEN target ELSE UrlRedirected]

RequestError == [kind |-> "error", status_code |-> NoStatus, content_type |-> NoneStr,
                 links |-> <<>>, swagger |-> FALSE, html_ok |-> FALSE,
                 history |-> <<>>, url |-> NoneStr]

\* what a GET of target can bring back
Responses(target) ==
    {RequestError}
    \cup {Response(sc, ct, <<>>, FALSE, FALSE, h, target) :
            sc \in StatusCodes, ct \in {NoneStr, CtJson, CtXml, CtHtml},
            h \in Histories(target)}
    \cup {Response(sc, CtHtml, l, sw, TRUE, h, target) :
            sc \in StatusCodes, l \in LinkLists, sw \in BOOLEAN, h \in Histories(target)}

\* endpoint URLs that end in slashes or in a separator of the query string
UrlApiSlashes == UrlApi \o <<"/", "/">>
UrlApiOpenQuery == UrlApi \o <<"?">>
UrlApiOpenParam == UrlApiQuery \o <<"&">>

EndpointUrls ==
    {<<>>, UrlApi, UrlApiQuery, UrlFtp, UrlFtpBadPort, UrlApiSlashes, UrlApiOpenQuery,
     UrlApiOpenParam}

ApiTypes == {TypeApi, TypeApiPadded, TypeFtpLower, TypeOther, NotAString}

Suffixes == {<<>>, SuffixQuery, SuffixPath}

Accepts == {<<>>, AcceptJson, AcceptSparql, AcceptSparqlUpper, AcceptXml}

InitValidate ==
    /\ IdleHostnames
    /\ IdleSearch
    /\ IdleRegistry
    /\ IdleGraph
    /\ IdleHarvest
    /\ IdleConcurrent
    /\ IdleController
    /\ v_pc = "start"
    /\ v_url \in EndpointUrls
    /\ v_api_type \in ApiTypes
    /\ protocol_configs \in [key : {TypeApi}, suffix : Suffixes, accept : Accepts]
    /\ v_probes = <<>>
    /\ v_recovery_url = NoneStr
    /\ v_outcome = NoOutcome

\* the URL a check of url requests
ProbeUrl(url, api_type) ==
    IF Route(url, api_type) = "specific"
    THEN TargetUrl(url, protocol_configs.suffix)
    ELSE url

Probe(url, api_type, is_recovery_attempt, env) ==
    [endpoint |-> url, url |-> ProbeUrl(url, api_type), route |-> Route(url, api_type),
     recovery |-> is_recovery_attempt, resp |-> env.resp, ftp_ok |-> env.ftp_ok]

ProbesAfter(url, api_type, is_recovery_attempt, env) ==
    IF Route(url, api_type) \in {"specific", "generic"}
       \/ (Route(url, api_type) = "ftp" /\ UrlPort(url) # "invalid")
    THEN Append(v_probes, Probe(url, api_type, is_recovery_attempt, env))
    ELSE v_probes

\* the environment of one check: the response of the GET, or whether the
\* FTP server accepts the anonymous login
Environments(url, api_type) ==
    IF Route(url, api_type) \in {"specific", "generic"}
    THEN {[resp |-> r, ftp_ok |-> FALSE] : r \in Responses(ProbeUrl(url, api_type))}
    ELSE IF Route(url, api_type) = "ftp"
    THEN {[resp |-> RequestError, ftp_ok |-> b] : b \in BOOLEAN}
    ELSE {[resp |-> RequestError, ftp_ok |-> FALSE]}

\* validate_url(url, api_type) up to its return, its exception or the
\* recursive call for the recovery URL
Validate ==
    /\ v_pc = "start"
    /\ \E env \in Environments(v_url, v_api_type) :
         LET r == validate_url(v_url, v_api_type, FALSE, env.resp, env.ftp_ok)
         IN  /\ v_pc' = IF r.next = "done" THEN "done"
                        ELSE IF r.next = "raise" THEN "raised"
                        ELSE "recovering"
             /\ v_outcome' = r.outcome
             /\ v_recovery_url' = r.recovery_url
             /\ v_probes' = ProbesAfter(v_url, v_api_type, FALSE, env)
    /\ UNCHANGED <<v_url, v_api_type, protocol_configs>>
    /\ UNCHANGED <<hostVars, searchVars, regVars, graphVars, harvestVars, concVars, ctrlVars>>

\* validate_url(recovery_url, api_type, is_recovery_attempt=True) up to its
\* return or up to a recursive call of its own, and the rest of the outer
\* _check_specific_http
Recover ==
    /\ v_pc = "recovering"
    /\ \E env \in Environments(v_recovery_url, v_api_type) :
         LET r == validate_url(v_recovery_url, v_api_type, TRUE, env.resp, env.ftp_ok)
         IN  /\ v_outcome' = IF r.next = "done" /\ r.outcome.valid
                             THEN [r.outcome EXCEPT !.note = "Recovered from HTML page",
                                                    !.original_url = v_url]
                             ELSE v_outcome
             /\ v_probes' = ProbesAfter(v_recovery_url, v_api_type, TRUE, env)
             /\ v_pc' = IF r.next = "recover" THEN "recovering" ELSE "done"
             /\ v_recovery_url' = IF r.next = "recover" THEN r.recovery_url
                                  ELSE v_recovery_url
    /\ UNCHANGED <<v_url, v_api_type, protocol_configs>>
    /\ UNCHANGED <<hostVars, searchVars, regVars, graphVars, harvestVars, concVars, ctrlVars>>

NextValidate == Validate \/ Recover

SpecValidate == InitValidate /\ [][NextValidate]_vars

-----------------------------------------------------------------------------
(* One JSONGraph: parse of a document, then getNodesByType *)

IdA == <<"a">>
IdB == <<"b">>
Literal == <<"v">>
Repository == <<"R", "e", "p", "o", "s", "i", "t", "o", "r", "y">>
ServicePrefixed == <<"s", ":", "S", "e", "r", "v", "i", "c", "e">>
ServiceUri == <<"h", "t", "t", "p", ":", "/", "/", "x", "/", "S", "e", "r", "v", "i", "c", "e">>
Thing == <<"T", "h", "i", "n", "g">>
KeyLink == <<"s", ":", "p">>
KeyLocal == <<"p">>
KeyContext == <<"@", "c", "o", "n", "t", "e", "x", "t">>
KeyExtra == <<<<"n", "1">>, <<"n", "2">>, <<"n", "3">>>>

\* {"@id": id}
Pointer(id) == VDict(<<Item(AtId, VStr(id))>>)

\* an entity object: '@id' and '@type' when given, extra literal
\* properties, and the link property when given
Entity(id, type, extra, link) ==
    VDict((IF id = NoneStr THEN <<>> ELSE <<Item(AtId, VStr(id))>>)
          \o (IF type = VNull THEN <<>> ELSE <<Item(AtType, type)>>)
          \o [i \in 1..extra |-> Item(KeyExtra[i], VStr(Literal))]
          \o (IF link = VNull THEN <<>> ELSE <<Item(KeyLink, link)>>))

\* the entities of the general graphs
Entities ==
    {Entity(id, type, 0, link) :
        id \in {IdA, IdB},
        type \in {VNull, VStr(Repository), VStr(ServicePrefixed)},
        link \in {VNull, Pointer(IdA), Pointer(IdB)}}

GeneralGraphs == UNION {[1..n -> Entities] : n \in 1..MaxObjs}

ServiceTypes ==
    {VStr(Service), VStr(ServicePrefixed), VStr(ServiceUri),
     VList(<<VStr(Thing), VStr(ServicePrefixed)>>)}

ServiceEntities ==
    {Entity(id, type, extra, VNull) :
        id \in {NoneStr, IdB}, type \in ServiceTypes, extra \in {0, 3}}

\* one "Repository" node that links one "Service" node: nested, nested in
\* a list, or by a pointer to a second object of the graph
RepositoryServiceGraphs ==
    UNION {{<<Entity(rid, VStr(Repository), 0, svc)>>,
            <<Entity(rid, VStr(Repository), 0, VList(<<svc>>))>>} :
              rid \in {NoneStr, IdA}, svc \in ServiceEntities}
    \cup UNION {{<<Entity(IdA, VStr(Repository), 0, Pointer(IdB)), svc>>,
                 <<svc, Entity(IdA, VStr(Repository), 0, VList(<<Pointer(IdB)>>))>>} :
                   svc \in {e \in ServiceEntities : HasKey(e, AtId)}}

\* graphs of nested entities that reference each other
NestedCycleGraphs ==
    {<<Entity(IdA, VStr(Repository), 0,
              Entity(IdB, VStr(Service), 0, Entity(IdA, VStr(Repository), 1, VNull)))>>,
     <<Entity(IdA, VStr(Repository), 0,
              Entity(IdB, VStr(Service), 0, Entity(IdA, VStr(Repository), 0, Pointer(IdB))))>>,
     <<Entity(IdA, VStr(Repository), 0,
              VList(<<Entity(IdB, VStr(Service), 0, VList(<<Pointer(IdA)>>))>>))>>}

\* what the one property of the referring node of ReferenceGraphs holds: the
\* identifier of the other node or of the node itself as a string, a
\* pointer, the other node twice in a list, or a literal
ReferenceValues ==
    {VStr(IdB), VStr(IdA), Pointer(IdB), VStr(Literal),
     VList(<<Pointer(IdB), Pointer(IdB)>>), VList(<<VStr(IdB), VStr(IdB)>>)}

\* a "Repository" node with one more property, named "url" or otherwise,
\* followed by the "Service" node it may refer to
ReferenceGraphs ==
    {<<VDict(<<Item(AtId, VStr(IdA)), Item(AtType, VStr(Repository)), Item(key, val)>>),
       Entity(IdB, VStr(Service), 0, VNull)>> :
        key \in {KeyUrl, KeyLink, KeyLocal}, val \in ReferenceValues}

\* two nodes that refer to each other, one with one property more than the
\* other, in both orders
FewerProperties == Entity(IdA, VStr(Repository), 1, Pointer(IdB))
MoreProperties == Entity(IdB, VStr(Service), 2, Pointer(IdA))

ScoreGraphs == {<<FewerProperties, MoreProperties>>, <<MoreProperties, FewerProperties>>}

\* a "Repository" node whose list holds an object that has the "Service"
\* node as the value of one property, named "url" or otherwise
NestedValueGraphs ==
    {<<VDict(<<Item(AtId, VStr(IdA)), Item(AtType, VStr(Repository)),
               Item(KeyLocal,
                    VList(<<VDict(<<Item(AtType, VStr(Thing)),
                                    Item(key, Entity(IdB, VStr(Service), 0, VNull))>>)>>))>>)>> :
        key \in {KeyUrl, KeyLink}}

Graphs ==
    GeneralGraphs \cup RepositoryServiceGraphs \cup NestedCycleGraphs \cup ReferenceGraphs
    \cup ScoreGraphs \cup NestedValueGraphs

\* rootNodeID: not given, or an identifier that the node table may hold
RootIds == {NoneStr, IdA, IdB}

Shapes(graph) == IF Len(graph) = 1 THEN {"single", "list", "wrapper"} ELSE {"list", "wrapper"}

\* the document that gives the graph in the shape
Shaped(graph, shape) ==
    IF shape = "single" THEN graph[1]
    ELSE IF shape = "list" THEN VList(graph)
    ELSE VDict(<<Item(KeyContext, VStr(Literal)), Item(AtGraph, VList(graph))>>)

\* well-formed documents that are no object and no list, or hold no entity
OtherDocuments ==
    {VStr(Literal), VNum, VNull, VList(<<>>), VDict(<<>>), Pointer(IdA),
     VList(<<Pointer(IdA)>>), VList(<<Pointer(IdA), VStr(Literal)>>),
     VDict(<<Item(AtGraph, VList(<<>>))>>),
     VDict(<<Item(AtGraph, VList(<<Pointer(IdA)>>))>>),
     VDict(<<Item(AtGraph, Entity(IdA, VStr(Repository), 0, VNull))>>)}

TargetSets == {{Service}, {Repository}, {Service, Repository}}

InitGraph ==
    /\ IdleHostnames
    /\ IdleSearch
    /\ IdleRegistry
    /\ IdleValidator
    /\ IdleHarvest
    /\ IdleConcurrent
    /\ IdleController
    /\ g_pc = "start"
    /\ \/ /\ g_graph \in Graphs
          /\ g_shape \in Shapes(g_graph)
          /\ g_document = Shaped(g_graph, g_shape)
       \/ /\ g_graph = <<>>
          /\ g_shape = "none"
          /\ g_document \in OtherDocuments
    /\ g_rootNodeID \in RootIds
    /\ g_nodes = <<>>
    /\ g_mainNode = NoneStr
    /\ g_jsonld = VNull
    /\ g_target = NoTarget
    /\ g_results = <<>>

\* JSONGraph().parse(jsonstr, rootNodeID)
Parse ==
    /\ g_pc = "start"
    /\ LET r == parse(g_document, g_rootNodeID)
       IN  /\ g_pc' = IF r.outcome = "ok" THEN "parsed" ELSE r.outcome
           /\ g_nodes' = r.nodes
           /\ g_mainNode' = r.mainNode
           /\ g_jsonld' = r.jsonld
    /\ UNCHANGED <<g_graph, g_shape, g_document, g_rootNodeID, g_target, g_results>>
    /\ UNCHANGED <<hostVars, searchVars, regVars, valVars, harvestVars, concVars, ctrlVars>>

\* getNodesByType(target_type, excludeMainEntity) on the parsed graph
GetNodesByType ==
    /\ g_pc = "parsed"
    /\ \E types \in TargetSets, excludeMainEntity \in BOOLEAN :
         /\ g_target' = [types |-> types, excludeMainEntity |-> excludeMainEntity]
         /\ g_results' = getNodesByType(1, g_nodes, g_mainNode, types, excludeMainEntity)
    /\ g_pc' = "queried"
    /\ UNCHANGED <<g_graph, g_shape, g_document, g_rootNodeID, g_nodes, g_mainNode, g_jsonld>>
    /\ UNCHANGED <<hostVars, searchVars, regVars, valVars, harvestVars, concVars, ctrlVars>>

NextGraph == Parse \/ GetNodesByType

SpecGraph == InitGraph /\ [][NextGraph]_vars

-----------------------------------------------------------------------------
(* RepositoryHarvester: harvest_self_hosted_metadata and export *)

\* the source tags as Python strings
SourceTag(source) ==
    CASE source = "embedded_jsonld" -> <<"e", "m", "b", "e", "d", "d", "e", "d", "_", "j", "s", "o", "n", "l", "d">>
      [] source = "meta_tags" -> <<"m", "e", "t", "a", "_", "t", "a", "g", "s">>
      [] source = "linked_jsonld" -> <<"l", "i", "n", "k", "e", "d", "_", "j", "s", "o", "n", "l", "d">>
      [] source = "fairicat_services" -> <<"f", "a", "i", "r", "i", "c", "a", "t", "_", "s", "e", "r", "v", "i", "c", "e", "s">>
      [] source = "feed_services" -> <<"f", "e", "e", "d", "_", "s", "e", "r", "v", "i", "c", "e", "s">>
      [] source = "sitemap_service" -> <<"s", "i", "t", "e", "m", "a", "p", "_", "s", "e", "r", "v", "i", "c", "e">>
      [] source = "open_search" -> <<"o", "p", "e", "n", "_", "s", "e", "a", "r", "c", "h">>
      [] source = "re3data" -> <<"r", "e", "3", "d", "a", "t", "a">>
      [] source = "fairsharing" -> <<"f", "a", "i", "r", "s", "h", "a", "r", "i", "n", "g">>

\* RepositoryHarvester.extractors.get(source, "Unknown Harvester")
extractors(source) ==
    CASE source = "embedded_jsonld" -> <<"E", "m", "b", "e", "d", "d", "e", "d", " ", "J", "S", "O", "N", "-", "L", "D", " ", "M", "e", "t", "a", "d", "a", "t", "a", " ", "E", "x", "t", "r", "a", "c", "t", "i", "o", "n">>
      [] source = "meta_tags" -> <<"E", "m", "b", "e", "d", "d", "e", "d", " ", "M", "e", "t", "a", "-", "T", "a", "g", "s", " ", "M", "e", "t", "a", "d", "a", "t", "a", " ", "E", "x", "t", "r", "a", "c", "t", "i", "o", "n">>
      [] source = "linked_jsonld" -> <<"L", "i", "n", "k", "e", "d", " ", "(", "s", "i", "g", "n", "p", "o", "s", "t", "i", "n", "g", ")", " ", "J", "S", "O", "N", "-", "L", "D", " ", "M", "e", "t", "a", "d", "a", "t", "a", " ", "E", "x", "t", "r", "a", "c", "t", "i", "o", "n">>
      [] source = "fairicat_services" -> <<"F", "A", "I", "R", "i", "C", "A", "T", " ", "/", " ", "L", "i", "n", "k", "s", "e", "t", " ", "/", " ", "A", "P", "I", " ", "C", "a", "t", "a", "l", "o", "g", " ", "D", "i", "s", "c", "o", "v", "e", "r", "y">>
      [] source = "feed_services" -> <<"F", "e", "e", "d", " ", "(", "A", "t", "o", "m", "/", "R", "S", "S", ")", " ", "S", "e", "r", "v", "i", "c", "e", " ", "D", "i", "s", "c", "o", "v", "e", "r", "y">>
      [] source = "sitemap_service" -> <<"S", "i", "t", "e", "m", "a", "p", " ", "S", "e", "r", "v", "i", "c", "e", " ", "D", "i", "s", "c", "o", "v", "e", "r", "y">>
      [] source = "open_search" -> <<"O", "p", "e", "n", "S", "e", "a", "r", "c", "h", " ", "S", "e", "r", "v", "i", "c", "e", " ", "D", "i", "s", "c", "o", "v", "e", "r", "y">>
      [] source = "re3data" -> <<"r", "e", "3", "d", "a", "t", "a", ".", "o", "r", "g", " ", "R", "e", "g", "i", "s", "t", "r", "y", " ", "H", "a", "r", "v", "e", "s", "t", "i", "n", "g">>
      [] source = "fairsharing" -> <<"F", "A", "I", "R", "s", "h", "a", "r", "i", "n", "g", ".", "o", "r", "g", " ", "R", "e", "g", "i", "s", "t", "r", "y", " ", "H", "a", "r", "v", "e", "s", "t", "i", "n", "g">>
      [] OTHER -> <<"U", "n", "k", "n", "o", "w", "n", " ", "H", "a", "r", "v", "e", "s", "t", "e", "r">>

EdenHarvester == <<"e", "d", "e", "n", ":", "/", "/", "h", "a", "r", "v", "e", "s", "t", "e", "r", "/">>

\* self.metadata with the 'services' of each of its chunks beside it
Harvested(chunks, services) == [chunks |-> chunks, services |-> services]

\* self.merge_metadata(extractor(), source)
MergeExtract(h, e, source, url) ==
    Harvested(merge_metadata(h.chunks, e.r, source, url),
              IF e.r.outcome = "record" THEN Append(h.services, e.services)
              ELSE h.services)

\* the loop over the 'describedby' links
RECURSIVE MergeLinked(_, _, _)
MergeLinked(h, links, url) ==
    IF links = <<>> THEN h
    ELSE MergeLinked(MergeExtract(h, get_linked_jsonld_metadata(links[1]),
                                  "linked_jsonld", url),
                     Tail(links), url)

\* the merges of harvest_self_hosted_metadata that follow the meta tags:
\* the linked JSON-LD, FAIRiCAT, feed and sitemap chunks
MergeSignposted(h, page, url) ==
    IF page.links_fail THEN h
    ELSE MergeExtract(
             MergeExtract(
                 MergeExtract(MergeLinked(h, page.describedby, url),
                              get_fairicat_metadata(page.fairicat), "fairicat_services", url),
                 get_feed_metadata(page.feed), "feed_services", url),
             get_sitemap_service_metadata(page.robots), "sitemap_service", url)

\* the try block of harvest_self_hosted_metadata: an exception of get_links
\* ends it with the chunks merged so far
harvest_self_hosted_metadata(h, page, url) ==
    MergeSignposted(
        MergeExtract(
            MergeExtract(h, get_embedded_jsonld_metadata(page.scripts, NoExtract),
                         "embedded_jsonld", url),
            get_html_meta_tags_metadata(page.tags), "meta_tags", url),
        page, url)

\* api_type.split(':')[-1] if ':' in api_type else api_type
ShortType(api_type) ==
    IF Contains(api_type, <<":">>) THEN LastPart(api_type, ":") ELSE api_type

\* the endpoint validation loop of export; envs[i] is what the check of
\* services[i] is answered with, and the validation result written into
\* the service is kept as "valid" or "invalid"
RECURSIVE ValidateServices(_, _, _)
ValidateServices(services, envs, done) ==
    IF services = <<>> THEN [raised |-> FALSE, services |-> done]
    ELSE IF Falsy(services[1].endpoint_uri)
    THEN ValidateServices(Tail(services), Tail(envs), Append(done, services[1]))
    ELSE LET Validated(validation_result) ==
                 IF validation_result.next = "raise"
                 THEN [raised |-> TRUE, services |-> done \o services]
                 ELSE ValidateServices(Tail(services), Tail(envs),
                          Append(done, [services[1] EXCEPT !.validation_status =
                                           IF validation_result.outcome.valid
                                           THEN StatusValid
                                           ELSE StatusInvalid]))
         IN  Validated(validate_url(services[1].endpoint_uri, ShortType(services[1].type),
                                    FALSE, envs[1].resp, envs[1].ftp_ok))

\* a string member of a dictionary the query reads: null for None
StrOrNull(s) == IF s = NoneStr THEN VNull ELSE VStr(s)

\* MetadataHelper.export: DCAT_EXPORT_QUERY, the members "@type",
\* "prov:wasGeneratedBy" and, of "prov:hadPrimarySource", the title, the
\* identifier and the services
MetadataHelper_export(m, services) ==
    VDict(<<Item(AtType, VStr(CatalogRecord)),
            Item(KeyWasGeneratedBy,
                 VDict(<<Item(AtType, VStr(ProvActivity)),
                         Item(KeyProvName, VStr(ActivityName))>>)),
            Item(KeyHadPrimarySource,
                 VDict(<<Item(KeyDctTitle, StrOrNull(m.title)),
                         Item(KeyDctIdentifier,
                              VList([i \in 1..Len(m.identifier) |->
                                       StrOrNull(m.identifier[i])])),
                         Item(KeyDcatService,
                              IF services = <<>> THEN VNull
                              ELSE VList([i \in 1..Len(services) |->
                                  VDict(<<Item(AtId, StrOrNull(services[i].endpoint_uri)),
                                          Item(AtType, VStr(DataServiceType)),
                                          Item(KeyDctDescription,
                                               VStr(services[i].validation_status))>>)]))
                       >>))>>)

\* not metadata_chunk
EmptyChunk(m, services) ==
    m.title = NoneStr /\ m.identifier = <<>> /\ services = <<>>

\* the identifier without the source tag
GeneratorId_without_source(source) == EdenHarvester

\* f'eden://harvester/{source}'
GeneratorId(source) == EdenHarvester \o SourceTag(source)

\* f'eden://harvester/{source}/{self.catalog_url}'
GraphId(source, url) == EdenHarvester \o SourceTag(source) \o <<"/">> \o url

\* one pass of the loop of export from the call of MetadataHelper.export to
\* final_records.append: kept tells whether the record is appended.  The
\* time stamps of the record are left out.
ExportRecord(chunk, services, url) ==
    LET export_record == MetadataHelper_export(chunk.metadata, services)
        primary_source == DictGet(export_record, KeyHadPrimarySource)
        identified == DictSet(export_record, AtId, VStr(GraphId(chunk.source, url)))
        generated ==
            IF HasKey(identified, KeyWasGeneratedBy)
            THEN DictSet(identified, KeyWasGeneratedBy,
                         DictSet(DictSet(DictGet(identified, KeyWasGeneratedBy),
                                         KeyProvName, VStr(extractors(chunk.source))),
                                 AtId, VStr(GeneratorId(chunk.source))))
            ELSE identified
        sourced ==
            IF HasKey(generated, KeyHadPrimarySource)
            THEN DictSet(generated, KeyHadPrimarySource,
                         DictSet(DictGet(generated, KeyHadPrimarySource), AtId, VStr(url)))
            ELSE generated
    IN  [kept |-> ~EmptyChunk(chunk.metadata, services) /\ IsTruthy(primary_source),
         record |-> sourced]

-----------------------------------------------------------------------------
(* One run of RepositoryHarvester(catalog_url).harvest()                    *)

\* an object with a name and a nested service that has a "url"
DocRepository ==
    VDict(<<Item(AtId, VStr(IdA)), Item(AtType, VStr(Repository)),
            Item(KeyName, VStr(TitleRepo)),
            Item(KeyLink, VDict(<<Item(AtId, VStr(IdB)), Item(AtType, VStr(Service)),
                                  Item(KeyUrl, VStr(UrlApi))>>))>>)

TitleTags == Tags(NoneStr, NoneStr, TitleRepo)

FeedLink(link) == [link |-> link, anchor |-> NoneStr]

AnchoredLink(anchor) == [link |-> UrlApiQuery, anchor |-> anchor]

\* a document of one named object
DocNamed(id) == VDict(<<Item(AtId, VStr(id)), Item(KeyName, VStr(TitleRepo))>>)

\* the landing page with meta tags only
MetaTagsPage == Page(<<>>, TitleTags, FALSE, <<>>, <<>>, <<>>, NoRobots)

\* landing pages: one with meta tags only; one with a script and meta
\* tags; one whose script parse fails on, with a tag of blanks and a
\* get_links that raises; pages with typed links, feeds or a sitemap; one
\* with two typed links that give different documents; and one with a
\* script parse fails on followed by a script it accepts
Pages ==
    {MetaTagsPage,
     Page(<<DocRepository>>, TitleTags, FALSE, <<>>, <<>>, <<>>, NoRobots),
     Page(<<VList(<<>>)>>, Tags(<<" ">>, NoneStr, NoneStr), TRUE, <<>>, <<>>, <<>>, NoRobots),
     Page(<<>>, TitleTags, FALSE, <<TypedLink(UrlApi, 200, DocRepository)>>, <<>>, <<>>,
          NoRobots),
     Page(<<>>, NoTags, FALSE, <<TypedLink(UrlApi, 404, VNull)>>,
          <<AnchoredLink(UrlApi), AnchoredLink(UrlApi)>>, <<FeedLink(UrlFtpBadPort)>>,
          NoRobots),
     Page(<<>>, TitleTags, FALSE, <<>>, <<>>, <<>>, [status_code |-> 200, sitemap |-> UrlApi]),
     Page(<<>>, NoTags, FALSE,
          <<TypedLink(UrlApi, 200, DocNamed(IdB)), TypedLink(UrlApiQuery, 200, DocNamed(IdA))>>,
          <<>>, <<>>, NoRobots),
     Page(<<VList(<<>>), DocRepository>>, TitleTags, FALSE, <<>>, <<>>, <<>>,
          [status_code |-> 200, sitemap |-> UrlApi])}

\* what the landing-page request of __init__ brings: a failure, or a text
\* and the URL it was answered from
Fetched(fetch, page, response_url) ==
    [fetch |-> fetch, page |-> page, response_url |-> response_url]

\* the answers to the request for url: UrlXY is the URL of an answer that
\* came after a redirect
Fetches(url) ==
    {Fetched("failed", NoPage, url)}
    \cup (IF StartsWith(url, HttpScheme)
          THEN {Fetched("empty", NoPage, url)}
               \cup {Fetched("page", p, url) : p \in Pages}
               \cup {Fetched("page", MetaTagsPage, UrlXY)}
          ELSE {})

InitHarvest ==
    /\ pc = "new"
    /\ catalog_url \in {UrlAB, UrlNoHost}
    /\ jwt_token = NoneStr
    /\ re3data_meta = NoResult
    /\ fairsharing_meta = NoResult
    /\ metadata = <<>>
    /\ calls = <<>>
    /\ IdleHostnames
    /\ IdleSearch
    /\ IdleValidator
    /\ IdleGraph
    /\ IdleHarvest
    /\ IdleConcurrent
    /\ IdleController

\* __init__: the landing page is fetched ("page"), fetched with an empty
\* text ("empty"), or the request fails; a URL without a scheme makes the
\* request fail
New ==
    /\ pc = "new"
    /\ \E response \in Fetches(catalog_url) :
         /\ h_fetch' = response.fetch
         /\ h_page' = response.page
         /\ catalog_url' = response.response_url
    /\ pc' = "self_hosted"
    /\ UNCHANGED <<jwt_token, re3data_meta, fairsharing_meta, metadata, calls>>
    /\ UNCHANGED <<h_next, h_services, h_records, h_raised>>
    /\ UNCHANGED <<hostVars, searchVars, valVars, graphVars, concVars, ctrlVars>>

\* harvest: harvest_self_hosted_metadata()
SelfHosted ==
    /\ pc = "self_hosted"
    /\ LET Merged_into(h) ==
               /\ metadata' = h.chunks
               /\ h_services' = h.services
       IN  Merged_into(IF h_fetch = "page"
                       THEN harvest_self_hosted_metadata(Harvested(metadata, h_services),
                                                         h_page, catalog_url)
                       ELSE Harvested(metadata, h_services))
    /\ pc' = "start"
    /\ UNCHANGED <<catalog_url, jwt_token, re3data_meta, fairsharing_meta, calls>>
    /\ UNCHANGED <<h_fetch, h_page, h_next, h_records, h_raised>>
    /\ UNCHANGED <<hostVars, searchVars, valVars, graphVars, concVars, ctrlVars>>

\* export(True) up to its loop
Export ==
    /\ pc = "done"
    /\ pc' = IF metadata = <<>> THEN "returned" ELSE "export"
    /\ h_next' = 1
    /\ UNCHANGED <<catalog_url, jwt_token, re3data_meta, fairsharing_meta, metadata, calls>>
    /\ UNCHANGED <<h_fetch, h_page, h_services, h_records, h_raised>>
    /\ UNCHANGED <<hostVars, searchVars, valVars, graphVars, concVars, ctrlVars>>

\* the API list of a registry record, which the lookups of the model do
\* not carry: it is read when the chunk of the record is exported
RegistryServices(source) ==
    IF source = "re3data"
    THEN {<<>>, <<ServiceEntry(UrlApi, TypeRe3Api)>>, <<ServiceEntry(UrlFtpBadPort, TypeRe3Api)>>}
    ELSE {<<>>}

\* what one endpoint check is answered with
ValidationAnswers ==
    {[resp |-> RequestError, ftp_ok |-> FALSE],
     [resp |-> Response(200, CtJson, <<>>, FALSE, FALSE, <<>>, UrlApi), ftp_ok |-> TRUE]}

\* what save returns: the count of the triple store's answer, 0 after an
\* exception, or None when the answer has no "count"
SaveResults == {"count", "None"}

\* one pass of the loop of export, for the chunk at h_next
ExportChunk ==
    /\ pc = "export"
    /\ LET chunk == metadata[h_next]
           last == h_next = Len(metadata)
       IN  \E services \in (IF h_next <= Len(h_services) THEN {h_services[h_next]}
                            ELSE RegistryServices(chunk.source)),
              saved_triples \in SaveResults :
             \E envs \in [1..Len(services) -> ValidationAnswers] :
               LET Raised(checked, exported) ==
                       IF checked.raised THEN "validate_url"
                       ELSE IF h_fetch = "failed" THEN "metadata_helper"
                       ELSE IF exported.kept /\ saved_triples = "None" THEN "save"
                       ELSE ""
                   Pass(checked, exported, raised) ==
                       /\ h_services' = IF h_next <= Len(h_services)
                                        THEN [h_services EXCEPT ![h_next] = checked.services]
                                        ELSE Append(h_services, checked.services)
                       /\ h_raised' = raised
                       /\ h_records' = IF raised \in {"", "save"} /\ exported.kept
                                       THEN Append(h_records, exported.record)
                                       ELSE h_records
                       /\ pc' = IF raised # "" THEN "raised"
                                ELSE IF last THEN "returned" ELSE "export"
                   Exported(checked, exported) ==
                       Pass(checked, exported, Raised(checked, exported))
                   Checked(checked) ==
                       Exported(checked, ExportRecord(chunk, checked.services, catalog_url))
               IN  Checked(ValidateServices(services, envs, <<>>))
    /\ h_next' = h_next + 1
    /\ UNCHANGED <<catalog_url, jwt_token, re3data_meta, fairsharing_meta, metadata, calls>>
    /\ UNCHANGED <<h_fetch, h_page>>
    /\ UNCHANGED <<hostVars, searchVars, valVars, graphVars, concVars, ctrlVars>>

NextHarvest ==
    \/ New
    \/ SelfHosted
    \/ Construct
    \/ Re3First
    \/ FSById
    \/ FSHarvestHostname
    \/ FSHarvestName
    \/ Bridge
    \/ Export
    \/ ExportChunk

SpecHarvest == InitHarvest /\ [][NextHarvest]_vars

-----------------------------------------------------------------------------
(* Two RepositoryHarvester instances that run harvest() concurrently, each *)
(* for its own repository.  The steps of an instance are its __init__, its *)
(* self-hosted harvest, its registry harvest and its export; the steps of  *)
(* the two instances interleave in every order.                            *)

\* what one run is answered with: the landing page of its URL and what the
\* lookups of the two registries return
Run(url, page, re3, fs) == [url |-> url, page |-> page, re3data |-> re3, fairsharing |-> fs]

\* the URL each instance is constructed with
UrlOf(i) == IF i = "one" THEN UrlAB ELSE UrlXY

RunsOf(i) ==
    {Run(UrlOf(i), Page(s, t, FALSE, <<>>, <<>>, <<>>, NoRobots), re3, fs) :
        s \in {<<>>, <<DocRepository>>, <<VList(<<>>)>>},
        t \in {NoTags, TitleTags},
        re3 \in {NoResult, Found(1, [title |-> TitleRepo, identifier |-> <<R3dId, UrlOf(i)>>])},
        fs \in {NoResult, Found(1, [title |-> NoneStr, identifier |-> <<>>])}}

\* attributes held by the class: one object for every instance
Owner_of_the_class(i) == "one"

\* the object that holds the attributes of instance i: __init__ assigns
\* self.metadata, and JSONGraph.__init__ self.nodes, on the instance
Owner(i) == i

InitConcurrent ==
    /\ IdleHostnames
    /\ IdleSearch
    /\ IdleRegistry
    /\ IdleValidator
    /\ IdleGraph
    /\ IdleHarvest
    /\ IdleController
    /\ c_pc = [i \in Instances |-> "new"]
    /\ c_input \in [Instances -> UNION {RunsOf(i) : i \in Instances}]
    /\ \A i \in Instances : c_input[i] \in RunsOf(i)
    /\ c_nodes = [i \in Instances |-> <<>>]
    /\ c_metadata = [i \in Instances |-> <<>>]
    /\ c_records = [i \in Instances |-> <<>>]

\* RepositoryHarvester(url): self.metadata = []
CNew(i) ==
    /\ c_pc[i] = "new"
    /\ c_metadata' = [c_metadata EXCEPT ![Owner(i)] = <<>>]
    /\ c_pc' = [c_pc EXCEPT ![i] = "self_hosted"]
    /\ UNCHANGED <<c_input, c_nodes, c_records>>
    /\ UNCHANGED <<hostVars, searchVars, regVars, valVars, graphVars, harvestVars, ctrlVars>>

\* the services of chunks that have none
NoServices(chunks) == [k \in 1..Len(chunks) |-> <<>>]

\* harvest_self_hosted_metadata of instance i
CSelfHosted(i) ==
    /\ c_pc[i] = "self_hosted"
    /\ c_metadata' = [c_metadata EXCEPT ![Owner(i)] =
                         harvest_self_hosted_metadata(
                             Harvested(c_metadata[Owner(i)], NoServices(c_metadata[Owner(i)])),
                             c_input[i].page, c_input[i].url).chunks]
    /\ c_nodes' = [c_nodes EXCEPT ![Owner(i)] =
                      LastNodes(c_input[i].page.scripts, c_nodes[Owner(i)])]
    /\ c_pc' = [c_pc EXCEPT ![i] = "registry"]
    /\ UNCHANGED <<c_input, c_records>>
    /\ UNCHANGED <<hostVars, searchVars, regVars, valVars, graphVars, harvestVars, ctrlVars>>

\* harvest_registry_metadata of instance i: the two merges that end it
CRegistry(i) ==
    /\ c_pc[i] = "registry"
    /\ c_metadata' = [c_metadata EXCEPT ![Owner(i)] =
                         merge_metadata(merge_metadata(c_metadata[Owner(i)],
                                                       c_input[i].re3data, "re3data",
                                                       c_input[i].url),
                                        c_input[i].fairsharing, "fairsharing",
                                        c_input[i].url)]
    /\ c_pc' = [c_pc EXCEPT ![i] = "export"]
    /\ UNCHANGED <<c_input, c_nodes, c_records>>
    /\ UNCHANGED <<hostVars, searchVars, regVars, valVars, graphVars, harvestVars, ctrlVars>>

\* the loop of export over chunks without services
RECURSIVE ExportAll(_, _)
ExportAll(chunks, url) ==
    IF chunks = <<>> THEN <<>>
    ELSE LET Kept(exported) == IF exported.kept THEN <<exported.record>> ELSE <<>>
         IN  Kept(ExportRecord(chunks[1], <<>>, url)) \o ExportAll(Tail(chunks), url)

\* export of instance i
CExport(i) ==
    /\ c_pc[i] = "export"
    /\ c_records' = [c_records EXCEPT ![i] = ExportAll(c_metadata[Owner(i)], c_input[i].url)]
    /\ c_pc' = [c_pc EXCEPT ![i] = "returned"]
    /\ UNCHANGED <<c_input, c_nodes, c_metadata>>
    /\ UNCHANGED <<hostVars, searchVars, regVars, valVars, graphVars, harvestVars, ctrlVars>>

NextConcurrent ==
    \E i \in Instances :
        \/ CNew(i)
        \/ CSelfHosted(i)
        \/ CRegistry(i)
        \/ CExport(i)

SpecConcurrent == InitConcurrent /\ [][NextConcurrent]_vars

-----------------------------------------------------------------------------
(* get_repo_info_controller: get_repo_info and _run_legacy_harvester.  The  *)
(* two harvesters are given by what they end with: the MSCR harvester by    *)
(* its fetch, its crosswalk and the result of the transformation, the       *)
(* legacy RepositoryHarvester by whether harvest() raises and by its chunk  *)
(* list.                                                                    *)

FairsharingOrg == <<"f", "a", "i", "r", "s", "h", "a", "r", "i", "n", "g", ".", "o", "r", "g">>

KeyServices == <<"s", "e", "r", "v", "i", "c", "e", "s">>

UrlFairsharing == HttpScheme \o FairsharingOrg \o <<"/", "x">>

UrlFairsharingUpper == HttpScheme \o <<"F", "A", "I", "R">> \o SubSeq(FairsharingOrg, 5, 15)

\* MOCK_MODE of the MSCR configuration
MOCK_MODE == FALSE

\* MSCRHarvester.harvest: self.metadata after it.  fetched is what
\* _fetch_remote_content returned, crosswalk whether a valid crosswalk id
\* is configured, result what MSCRClient.transform returned
MSCR_harvest(fetched, crosswalk, result) ==
    IF ~fetched THEN VDict(<<>>)
    ELSE IF ~MOCK_MODE /\ ~crosswalk THEN VDict(<<>>)
    ELSE IF IsTruthy(result) THEN result
    ELSE VDict(<<>>)

\* d.get(key, default)
GetOr(d, key, default) == IF HasKey(d, key) THEN DictGet(d, key) ELSE default

\* the repo-info dictionary
RepoInfoResponse(url, result_metadata) ==
    [status |-> 200, repoURI |-> url, metadata |-> result_metadata,
     services |-> GetOr(result_metadata, KeyServices, VList(<<>>))]

\* the error dictionary returned with status 500
ErrorResponse(url) ==
    [status |-> 500, repoURI |-> url, metadata |-> VNull, services |-> VNull]

\* the try block of get_repo_info on the metadata of the MSCR harvester:
\* keys() is a method of dictionaries only
try_mscr(url, mscr_metadata) ==
    IF ~IsTruthy(mscr_metadata) THEN [outcome |-> "empty", response |-> NoResponse]
    ELSE IF mscr_metadata.t # "dict" THEN [outcome |-> "raised", response |-> NoResponse]
    ELSE IF Len(mscr_metadata.v) > 0
    THEN [outcome |-> "metadata", response |-> RepoInfoResponse(url, mscr_metadata)]
    ELSE [outcome |-> "empty", response |-> NoResponse]

\* _run_legacy_harvester: harvest() raises, or result_metadata is
\* harvester.metadata, on which get is called; get is a method of
\* dictionaries only, and the exception of the call is caught like any other
run_legacy_harvester(url, raises, result_metadata) ==
    IF raises THEN [outcome |-> "raised", response |-> ErrorResponse(url)]
    ELSE IF result_metadata.t # "dict"
    THEN [outcome |-> "completed", response |-> ErrorResponse(url)]
    ELSE [outcome |-> "completed", response |-> RepoInfoResponse(url, result_metadata)]

\* a chunk of RepositoryHarvester.metadata
LegacyChunk ==
    VDict(<<Item(<<"s", "o", "u", "r", "c", "e">>, VStr(SourceTag("meta_tags"))),
            Item(<<"m", "e", "t", "a", "d", "a", "t", "a">>,
                 VDict(<<Item(KeyTitle, VStr(TitleRepo))>>))>>)

\* what MSCRClient.transform returns: None, an empty dictionary, a
\* dictionary without and with "services", and a list
TransformResults ==
    {VNull, VDict(<<>>),
     VDict(<<Item(KeyTitle, VStr(TitleRepo))>>),
     VDict(<<Item(KeyTitle, VStr(TitleRepo)),
             Item(KeyServices, VList(<<VStr(UrlApi)>>))>>),
     VList(<<VStr(TitleRepo)>>)}

\* RepositoryHarvester.metadata after harvest(): the list of chunks
LegacyMetadata == {VList(<<>>), VList(<<LegacyChunk>>), VList(<<LegacyChunk, LegacyChunk>>)}

RequestUrls == {UrlAB, UrlL, UrlFairsharing, UrlFairsharingUpper}

InitController ==
    /\ IdleHostnames
    /\ IdleSearch
    /\ IdleRegistry
    /\ IdleValidator
    /\ IdleGraph
    /\ IdleHarvest
    /\ IdleConcurrent
    /\ k_pc = "received"
    /\ k_url \in RequestUrls
    /\ k_env \in [fetched : BOOLEAN, crosswalk : BOOLEAN, result : TransformResults,
                  legacy_raises : BOOLEAN, legacy_metadata : LegacyMetadata]
    /\ k_mscr = "none"
    /\ k_legacy = "none"
    /\ k_response = NoResponse

\* get_repo_info up to the exclusion of the FAIRsharing URLs
Exclusions ==
    /\ k_pc = "received"
    /\ IF Contains(k_url, FairsharingOrg)
       THEN k_pc' = "legacy" /\ k_mscr' = "skipped"
       ELSE k_pc' = "mscr" /\ k_mscr' = "none"
    /\ UNCHANGED <<k_url, k_env, k_legacy, k_response>>
    /\ UNCHANGED <<hostVars, searchVars, regVars, valVars, graphVars, harvestVars, concVars>>

\* get_repo_info: the MSCR attempt
TryMscr ==
    /\ k_pc = "mscr"
    /\ LET Tried(r) ==
               /\ k_mscr' = r.outcome
               /\ k_response' = r.response
               /\ k_pc' = IF r.outcome = "metadata" THEN "responded" ELSE "legacy"
       IN  Tried(try_mscr(k_url, MSCR_harvest(k_env.fetched, k_env.crosswalk, k_env.result)))
    /\ UNCHANGED <<k_url, k_env, k_legacy>>
    /\ UNCHANGED <<hostVars, searchVars, regVars, valVars, graphVars, harvestVars, concVars>>

\* get_repo_info: return _run_legacy_harvester(url)
RunLegacy ==
    /\ k_pc = "legacy"
    /\ LET Ran(r) ==
               /\ k_legacy' = r.outcome
               /\ k_response' = r.response
       IN  Ran(run_legacy_harvester(k_url, k_env.legacy_raises, k_env.legacy_metadata))
    /\ k_pc' = "responded"
    /\ UNCHANGED <<k_url, k_env, k_mscr>>
    /\ UNCHANGED <<hostVars, searchVars, regVars, valVars, graphVars, harvestVars, concVars>>

NextController == Exclusions \/ TryMscr \/ RunLegacy

SpecController == InitController /\ [][NextController]_vars

-----------------------------------------------------------------------------
(* C1 *)

StatedNormal(h) ==
    LET l == Lower(h)
    IN  IF Len(l) >= 4 /\ l[1] = "w" /\ l[2] = "w" /\ l[3] = "w" /\ l[4] = "."
        THEN [i \in 1..(Len(l) - 4) |-> l[i + 4]]
        ELSE l

StatedMatch(q, r) ==
    IF q = NoneStr \/ r = NoneStr THEN FALSE
    ELSE LET n1 == StatedNormal(q)
             n2 == StatedNormal(r)
             c1 == Len(SplitDots(n1))
             c2 == Len(SplitDots(n2))
             longer == IF c1 > c2 THEN n1 ELSE n2
             shorter == IF c1 > c2 THEN n2 ELSE n1
         IN  /\ n1 # <<>>
             /\ n2 # <<>>
             /\ \/ n1 = n2
                \/ /\ (c1 - c2 = 1 \/ c2 - c1 = 1)
                   /\ EndsWith(longer, <<".">> \o shorter)

\* C1: both clients' _hostnames_match return true exactly when, after
\* lower-casing and stripping one leading "www.", the two names are non-empty
\* and either equal or the label counts differ by exactly one and the longer
\* name ends with "." + the shorter one; false in every other case.
C1_HostnamesMatch ==
    match_result.done =>
        /\ match_result.re3 = StatedMatch(query_hostname, record_hostname)
        /\ match_result.fs = StatedMatch(query_hostname, record_hostname)

\* a direct-subdomain match (no "www." involved) has been computed
C1_Witness ==
    /\ match_result.done
    /\ match_result.re3
    /\ match_result.fs
    /\ query_hostname # NoneStr
    /\ record_hostname # NoneStr
    /\ Len(query_hostname) > Len(record_hostname)
    /\ ~StartsWith(Lower(query_hostname), WwwDot)
    /\ ~StartsWith(Lower(record_hostname), WwwDot)

-----------------------------------------------------------------------------
(* C2 *)

SearchDone == search_out.outcome # "pending"

Returned == search_data[search_out.idx]

\* the candidates of a hostname search that match the query hostname
FSMatching ==
    {i \in 1..Len(search_data) :
        /\ search_data[i].type = "fairsharing_records"
        /\ search_data[i].homepage # NoneStr
        /\ StatedMatch(HostAB, UrlHostname(search_data[i].homepage))}

\* the candidates a re3data search can verify against the query
Re3Matching ==
    {i \in 1..Len(search_data) :
        /\ search_data[i].id # NoneStr
        /\ IF search_case = "re3_name"
           THEN Contains(Lower(search_data[i].name), Lower(TitleRepo))
           ELSE /\ search_data[i].record.fetch_ok
                /\ StatedMatch(HostAB, UrlHostname(search_data[i].record.repositoryURL))}

IsFirstIn(i, S) == i \in S /\ \A j \in S : i <= j

\* ready first, else not deprecated, else none
PreferredOf(M) ==
    LET R == {i \in M : search_data[i].status = "ready"}
        N == {i \in M : search_data[i].status # "deprecated"}
    IN  /\ R # {} => search_out.outcome = "record" /\ IsFirstIn(search_out.idx, R)
        /\ (R = {} /\ N # {}) => search_out.outcome = "record" /\ IsFirstIn(search_out.idx, N)
        /\ N = {} => search_out.outcome = "none"

Re3Status(c) == c.record.status

\* C2 as stated: every search of either client returns the first matching
\* "ready" candidate, else the first matching candidate that is not
\* "deprecated", else none, and no search or by-id lookup returns a
\* "deprecated" record.
C2_AsStated ==
    SearchDone =>
        /\ search_case = "fs_hostname" => PreferredOf(FSMatching)
        /\ (search_case \in {"fs_hostname", "fs_id"} /\ search_out.outcome = "record")
              => Returned.status # "deprecated"
        /\ (search_case \in {"re3_hostname", "re3_name"} /\ search_out.outcome = "record")
              => Re3Status(Returned) # "deprecated"

\* C2 (amended): a hostname-filtered FAIRsharing search returns the first
\* matching "ready" candidate, else the first matching candidate that is not
\* "deprecated", else none, and no FAIRsharing search or by-id lookup returns
\* a "deprecated" record; a re3data search reads no status and returns the
\* first candidate it verifies, whatever its status.
C2_Selection ==
    SearchDone =>
        /\ search_case = "fs_hostname" =>
              /\ PreferredOf(FSMatching)
              /\ search_out.outcome = "record" => search_out.meta = FS_project(Returned)
        /\ (search_case \in {"fs_hostname", "fs_id"} /\ search_out.outcome = "record")
              => Returned.status # "deprecated"
        /\ search_case \in {"re3_hostname", "re3_name"} =>
              /\ search_out.outcome = "record" => IsFirstIn(search_out.idx, Re3Matching)
              /\ (\E i \in Re3Matching : IsFirstIn(i, Re3Matching) /\ search_data[i].record.fetch_ok)
                    => search_out.outcome = "record"

\* {"deprecated", "unknown", "ready"}, all three matching: the third is returned
C2_Witness ==
    /\ search_case = "fs_hostname"
    /\ search_out.outcome = "record"
    /\ search_out.idx = 3
    /\ FSMatching = {1, 2, 3}
    /\ search_data[1].status = "deprecated"
    /\ search_data[2].status = "unknown"

-----------------------------------------------------------------------------
(* C3 *)

CallsOf(reg, ops) == {i \in 1..Len(calls) : calls[i].registry = reg /\ calls[i].op \in ops}

FSLookups == CallsOf("fairsharing", {"search_id", "search_hostname", "search_name"})

Re3FirstPass == CallsOf("re3data", {"search_hostname"})

Re3SecondPass == CallsOf("re3data", {"fetch_id", "search_name"})

\* the identifiers of the first-pass re3data record that name FAIRsharing
FirstPassFSIds ==
    IF Re3SecondPass # {} \/ re3data_meta.outcome # "record" THEN {}
    ELSE {i \in 1..Len(re3data_meta.meta.identifier) :
             Contains(Lower(re3data_meta.meta.identifier[i]), Fairsharing)}

-----------------------------------------------------------------------------
(* C4 *)

FirstPassFound == \E i \in Re3FirstPass : calls[i].result = "record"

FSFound == fairsharing_meta.outcome = "record"

FSRecordHasR3dId ==
    \E i \in 1..Len(fairsharing_meta.meta.identifier) :
        /\ fairsharing_meta.meta.identifier[i] # NoneStr
        /\ Len(fairsharing_meta.meta.identifier[i]) >= 3
        /\ SubSeq(fairsharing_meta.meta.identifier[i], 1, 3) = <<"r", "3", "d">>

FSRecordHasTitle == fairsharing_meta.meta.title \notin {NoneStr, <<>>}

SecondPassShape ==
    /\ Cardinality(Re3SecondPass) <= 1
    /\ \A i \in Re3SecondPass :
          /\ ~FirstPassFound
          /\ FSFound
          /\ IF FSRecordHasR3dId
             THEN /\ calls[i].op = "fetch_id"
                  /\ StartsWith(calls[i].arg, R3dPrefix)
                  /\ \E k \in 1..Len(fairsharing_meta.meta.identifier) :
                        calls[i].arg = fairsharing_meta.meta.identifier[k]
             ELSE /\ calls[i].op = "search_name"
                  /\ calls[i].arg = fairsharing_meta.meta.title

\* C4 as stated: a second re3data lookup happens if and only if the first
\* returned nothing and the FAIRsharing lookup returned a record; it is a
\* fetch by identifier when the FAIRsharing record holds an r3d identifier
\* and otherwise a name search with the record's title.
C4_AsStated ==
    /\ SecondPassShape
    /\ pc = "done" => (Re3SecondPass # {} <=> (~FirstPassFound /\ FSFound))

\* C4 (amended): a second re3data lookup happens if and only if the first
\* returned nothing and the FAIRsharing lookup returned a record that holds
\* an r3d identifier or a title; it is a fetch by identifier when the record
\* holds an r3d identifier and otherwise a name search with the title; there
\* is no second lookup when the first pass found a record.
C4_SecondPass ==
    /\ SecondPassShape
    /\ pc = "done" =>
          (Re3SecondPass # {} <=>
              (~FirstPassFound /\ FSFound /\ (FSRecordHasR3dId \/ FSRecordHasTitle)))

\* bridged back by title: the first pass found nothing, FAIRsharing did
C4_Witness ==
    /\ pc = "done"
    /\ ~FirstPassFound
    /\ FSFound
    /\ ~FSRecordHasR3dId
    /\ \E i \in Re3SecondPass : calls[i].op = "search_name" /\ calls[i].result = "record"

-----------------------------------------------------------------------------
(* C5 *)

ChunksOf(source) == {i \in 1..Len(metadata) : metadata[i].source = source}

\* C5: harvest_registry_metadata never raises, whatever the registries
\* answer, and at its end the chunk list holds exactly one chunk for each
\* registry that produced a record.
C5_NeverRaises ==
    /\ pc # "raised"
    /\ pc = "done" =>
          /\ Cardinality(ChunksOf("re3data")) = (IF re3data_meta.outcome = "record" THEN 1 ELSE 0)
          /\ Cardinality(ChunksOf("fairsharing")) = (IF FSFound THEN 1 ELSE 0)
          /\ Len(metadata) = Cardinality(ChunksOf("re3data")) + Cardinality(ChunksOf("fairsharing"))

-----------------------------------------------------------------------------
(* C6 *)

\* C6: without a token after construction, no search request is sent to
\* FAIRsharing, every lookup returns nothing, and authentication is not
\* attempted again.
C6_NoTokenNoRequest ==
    (pc # "start" /\ jwt_token = NoneStr) =>
        /\ FSLookups = {}
        /\ fairsharing_meta.outcome = "none"
        /\ Cardinality(CallsOf("fairsharing", {"authenticate"})) <= 1

-----------------------------------------------------------------------------
(* C7 *)

SameDoi(c) == c.doi # NoneStr /\ Lower(c.doi) = Lower(FsId)

DoiEqualCands == {i \in 1..Len(search_data) : SameDoi(search_data[i])}

\* C7: harvest_by_id returns a record only when that record's DOI equals
\* the requested identifier, compared without regard to case; it is the
\* first such candidate, returned unless it is "deprecated"; the homepage of
\* a candidate plays no part, and without a candidate of equal DOI the
\* result is none.
C7_ByIdExact ==
    (search_case = "fs_id" /\ SearchDone) =>
        /\ search_out.outcome \in {"record", "none"}
        /\ search_out.outcome = "record" =>
              /\ IsFirstIn(search_out.idx, DoiEqualCands)
              /\ search_out.meta = FS_project(Returned)
        /\ DoiEqualCands = {} => search_out.outcome = "none"
        /\ (\E i \in DoiEqualCands :
               IsFirstIn(i, DoiEqualCands) /\ search_data[i].status # "deprecated")
              => search_out.outcome = "record"

\* the second candidate is returned for its DOI, which differs in case from
\* the requested identifier, although the first one has the homepage of the
\* catalog
C7_Witness ==
    /\ search_case = "fs_id"
    /\ search_out.outcome = "record"
    /\ search_out.idx = 2
    /\ Returned.doi # FsId
    /\ Returned.homepage = UrlXY
    /\ search_data[1].homepage = UrlAB

-----------------------------------------------------------------------------
(* C8 *)

FirstProbe == v_probes[1]

LastProbe == v_probes[Len(v_probes)]

Answered(p) == p.route \in {"specific", "generic"} /\ p.resp.kind = "ok"

\* the configured accept header names a SPARQL media type; media types
\* are case-insensitive
SparqlExpected == Contains(Lower(protocol_configs.accept), Lower(SparqlMark))

\* C8: when the protocol configuration expects a SPARQL content type, a
\* probe answered with status 400 yields valid = true, status code 400 and
\* a note; for every other protocol type a 400 answer yields valid = false.
C8_Sparql400 ==
    (v_pc = "done" /\ Len(v_probes) >= 1 /\ Answered(LastProbe)
        /\ LastProbe.resp.status_code = 400)
    => IF LastProbe.route = "specific" /\ SparqlExpected
       THEN v_outcome.valid /\ v_outcome.status_code = 400 /\ v_outcome.note # ""
       ELSE ~v_outcome.valid

-----------------------------------------------------------------------------
(* C9 *)

\* the declared content type contains one of the accepted type strings
TypeAccepted(content_type, accept) ==
    LET declared == Lower(IF content_type = NoneStr THEN <<>> ELSE content_type)
        parts == Split(accept, ",")
    IN  \E i \in 1..Len(parts) : Contains(declared, Lower(Strip(parts[i])))

InRange(status_code) == 200 <= status_code /\ status_code <= 399

ConfiguredProbe ==
    /\ v_pc = "done"
    /\ Len(v_probes) >= 1
    /\ FirstProbe.route = "specific"
    /\ FirstProbe.resp.kind = "ok"
    /\ protocol_configs.accept # <<>>

Mismatch == v_outcome.error = "Invalid Content-Type"

Recovered == v_outcome.note = "Recovered from HTML page"

PlainValid == v_outcome.valid /\ v_outcome.note = ""

\* the second half of C9: a valid outcome that is no recovery result, no
\* documentation-UI fallback and no 400 special case has a status in
\* 200..399 and a content type containing one of the accepted types
ValidImpliesAccepted ==
    PlainValid => /\ InRange(v_outcome.status_code)
                  /\ TypeAccepted(v_outcome.content_type, protocol_configs.accept)

\* C9 as stated: whenever the declared content type contains none of the
\* accepted type strings the outcome is valid = false with the mismatch
\* error, unless the recovery succeeded.
C9_AsStated ==
    ConfiguredProbe
    => /\ ~TypeAccepted(FirstProbe.resp.content_type, protocol_configs.accept)
            => (~v_outcome.valid /\ Mismatch) \/ Recovered
       /\ ValidImpliesAccepted

\* C9: for a probe with a configured expected content type, a response
\* with a status in 200..399 whose content type contains none of the
\* accepted type strings yields valid = false with the mismatch error,
\* unless the recovery succeeded or the documentation-UI fallback applied;
\* a response with a status outside 200..399 yields valid = false without
\* a content-type error, except the 400 special case; and a valid outcome
\* that is none of the three exceptions has a status in 200..399 and a
\* content type containing one of the accepted types.
C9_ContentType ==
    ConfiguredProbe
    => /\ (InRange(FirstProbe.resp.status_code)
            /\ ~TypeAccepted(FirstProbe.resp.content_type, protocol_configs.accept))
            => \/ ~v_outcome.valid /\ Mismatch
               \/ Recovered
               \/ v_outcome.valid /\ v_outcome.note = "Swagger UI"
       /\ ~InRange(FirstProbe.resp.status_code)
            => \/ ~v_outcome.valid /\ ~Mismatch
               \/ v_outcome.note = "Active (Missing Query params)"
       /\ ValidImpliesAccepted

C9_Witness ==
    /\ ConfiguredProbe
    /\ InRange(FirstProbe.resp.status_code)
    /\ ~TypeAccepted(FirstProbe.resp.content_type, protocol_configs.accept)
    /\ ~v_outcome.valid
    /\ Mismatch

-----------------------------------------------------------------------------
(* C10 *)

EndsInJson(href) == EndsWith(href, DotJson)

\* JSON was expected and a parsable HTML page was received
HtmlForJson ==
    /\ ConfiguredProbe
    /\ Contains(protocol_configs.accept, AppJson)
    /\ InRange(FirstProbe.resp.status_code)
    /\ Contains(Lower(FirstProbe.resp.content_type), TextHtml)
    /\ FirstProbe.resp.html_ok

\* C10: when JSON was expected and an HTML page was received, the first
\* hyperlink of the page whose target ends in ".json", and only that one,
\* is validated; if that validation is valid the outcome is the recovered
\* link's, with a note naming the original URL; if it is not valid the
\* outcome is valid = false.
C10_RecoverFirstJsonLink ==
    HtmlForJson
    => LET ending == SelectSeq(FirstProbe.resp.links, EndsInJson)
       IN  IF ending # <<>>
           THEN /\ Len(v_probes) = 2
                /\ v_probes[2].endpoint = UrlJoin(FirstProbe.resp.url, ending[1])
                /\ \/ /\ Recovered
                      /\ v_outcome.valid
                      /\ v_outcome.url = v_probes[2].url
                      /\ v_outcome.original_url = v_url
                   \/ ~v_outcome.valid
           ELSE Len(v_probes) = 1

-----------------------------------------------------------------------------
(* C11 *)

\* the probe failed at the network level: the GET raised a
\* RequestException, or the FTP connect/login/quit cycle failed
NetworkFailure(p) ==
    \/ p.route \in {"specific", "generic"} /\ p.resp.kind = "error"
    \/ p.route = "ftp" /\ ~p.ftp_ok

\* C11: validate_url never raises to its caller; a network-level failure
\* of the HTTP probe or of the FTP cycle yields valid = false carrying the
\* error text, and every other input, an unparsable port or a protocol type
\* that is no string included, yields an outcome value as well.
C11_NeverRaises ==
    /\ v_pc # "raised"
    /\ (v_pc = "done" /\ Len(v_probes) = 1 /\ NetworkFailure(FirstProbe))
        => ~v_outcome.valid /\ v_outcome.error \in {"request", "ftp"}

-----------------------------------------------------------------------------
(* C12 *)

\* the probe the returned outcome was built from
OutcomeProbe == IF Recovered THEN v_probes[2] ELSE FirstProbe

\* C12: when the request of an HTTP-family probe followed one or more
\* redirects, the outcome holds the hops, status code and URL of each in
\* order, and the final resolved URL next to the probed URL, whatever the
\* kind of outcome.
C12_RedirectsRecorded ==
    (v_pc = "done" /\ Len(v_probes) >= 1 /\ Answered(OutcomeProbe)
        /\ OutcomeProbe.resp.history # <<>>)
    => /\ v_outcome.redirects = OutcomeProbe.resp.history
       /\ v_outcome.final_url = OutcomeProbe.resp.url
       /\ v_outcome.url = OutcomeProbe.url

-----------------------------------------------------------------------------
(* C13 *)

\* C13: when JSON was expected, HTML was received and no hyperlink of the
\* page ends in ".json", a page holding the markers of the API
\* documentation UI yields valid = true with the explanatory note, and a
\* page without the markers yields valid = false.
C13_DocUiFallback ==
    (HtmlForJson /\ SelectSeq(FirstProbe.resp.links, EndsInJson) = <<>>)
    => IF FirstProbe.resp.swagger
       THEN v_outcome.valid /\ v_outcome.note = "Swagger UI"
       ELSE ~v_outcome.valid

-----------------------------------------------------------------------------
(* C14 *)

AfterParse == g_pc \notin {"idle", "start"}

ParseOutcome == IF g_pc \in {"parsed", "queried"} THEN "ok" ELSE g_pc

-----------------------------------------------------------------------------
(* C15 *)

\* the identifiers of the node table that a node's properties hold
References(node) ==
    {OutCands(node.dict.v)[i] : i \in 1..Len(OutCands(node.dict.v))}
        \cap {g_nodes[j].id : j \in 1..Len(g_nodes)}

\* two entity nodes of the table reference each other
TrueCycle ==
    \E i, j \in 1..Len(g_nodes) :
        /\ i # j
        /\ g_nodes[j].id \in References(g_nodes[i])
        /\ g_nodes[i].id \in References(g_nodes[j])

\* C15: for an input whose entity references form a true cycle, parse
\* raises the circular-reference error and terminates.
C15_CycleRaises == (AfterParse /\ TrueCycle) => g_pc = "ValueError"

-----------------------------------------------------------------------------
(* C16 *)

\* a well-formed document that is no object and no list, or that holds no
\* entity node: an empty list, an empty object, only id-only pointers
NoEntityDocument ==
    \/ g_document.t \notin {"list", "dict"}
    \/ g_document \in {VList(<<>>), VDict(<<>>), Pointer(IdA), VList(<<Pointer(IdA)>>)}

\* C16: parse of a document that is neither an object nor a list, or that
\* holds no entity node, completes without raising and leaves an empty
\* result.
C16_EmptyResult ==
    (AfterParse /\ NoEntityDocument) => g_pc = "parsed" /\ g_nodes = <<>>

-----------------------------------------------------------------------------
(* C17 *)

\* a type name without its namespace prefix: what follows the last "/" or
\* ":" of the name
StrippedName(name) ==
    LET marks == {i \in 1..Len(name) : name[i] \in {"/", ":"}}
    IN  IF marks = {} THEN name
        ELSE SubSeq(name, (CHOOSE i \in marks : \A j \in marks : j <= i) + 1, Len(name))

StrippedTypes(node) ==
    LET types == DictGet(node.dict, AtType)
    IN  IF types.t = "str" THEN {StrippedName(types.v)}
        ELSE IF types.t = "list" THEN {StrippedName(types.v[i].v) : i \in 1..Len(types.v)}
        ELSE {}

\* the positions in the node table of the nodes getNodesByType is to return
Requested ==
    {k \in 1..Len(g_nodes) :
        /\ StrippedTypes(g_nodes[k]) \cap g_target.types # {}
        /\ g_target.excludeMainEntity => g_nodes[k].id # g_mainNode}

\* the position in the node table of the node the k-th entry was built from
RECURSIVE NthRequested(_, _)
NthRequested(k, from) ==
    LET first == CHOOSE i \in Requested : i >= from /\ \A j \in Requested : j >= from => i <= j
    IN  IF k = 1 THEN first ELSE NthRequested(k - 1, first + 1)

\* one entry for each requested node, holding its expanded subtree and the
\* property key it was reached through
OneEntryEach ==
    /\ Len(g_results) = Cardinality(Requested)
    /\ \A k \in 1..Len(g_results) :
          LET node == g_nodes[NthRequested(k, 1)]
          IN  /\ g_results[k].from_prop = node.from_prop
              /\ g_results[k].graph = expandNode(node.dict, g_nodes, NewWalk).val

\* the graph has one "Repository" node that links one "Service" node, and
\* "Service" nodes are requested with excludeMainEntity at its default
ServiceOfRepository ==
    /\ g_graph \in RepositoryServiceGraphs
    /\ g_target = [types |-> {Service}, excludeMainEntity |-> TRUE]

RepositoryIsMain ==
    \E k \in 1..Len(g_nodes) :
        g_nodes[k].id = g_mainNode /\ Repository \in StrippedTypes(g_nodes[k])

-----------------------------------------------------------------------------
(* C18 *)

\* the landing page was fetched: __init__ left a MetadataHelper behind
FetchSucceeded == h_fetch \in {"page", "empty"}

\* C18: if the landing-page fetch succeeded, harvest() returns a list of
\* records and never raises, whatever fails afterwards; harvest() fails
\* outright only when the initial landing-page fetch failed.
C18_NeverRaises == FetchSucceeded => pc # "raised"

-----------------------------------------------------------------------------
(* C19 *)

\* the "@id" of a record's "prov:wasGeneratedBy"
GeneratorOf(record) == Member(Member(record, KeyWasGeneratedBy), AtId)

MetaTagsGenerator == VStr(<<"e", "d", "e", "n", ":", "/", "/", "h", "a", "r", "v", "e", "s", "t", "e", "r", "/", "m", "e", "t", "a", "_", "t", "a", "g", "s">>)

\* the landing page has a meta tag with content and no script, no typed
\* link and no feed
OnlyMetaTags ==
    /\ h_fetch = "page"
    /\ h_page.scripts = <<>>
    /\ \E content \in {h_page.tags.description, h_page.tags.publisher, h_page.tags.title} :
          content # NoneStr /\ Strip(content) # <<>>
    /\ ~h_page.links_fail
    /\ h_page.describedby = <<>>
    /\ h_page.fairicat = <<>>
    /\ h_page.feed = <<>>

NoRegistryMatch == re3data_meta.outcome # "record" /\ fairsharing_meta.outcome # "record"

-----------------------------------------------------------------------------
(* C20 *)

\* the chunk list of a run that no other instance runs beside
AloneChunks(run) ==
    merge_metadata(
        merge_metadata(harvest_self_hosted_metadata(Harvested(<<>>, <<>>),
                                                    run.page, run.url).chunks,
                       run.re3data, "re3data", run.url),
        run.fairsharing, "fairsharing", run.url)

\* C20: two RepositoryHarvester runs for different repositories share no
\* mutable state: in every interleaving of the steps of the two instances,
\* an instance that has returned has the node table, the chunk list and
\* the exported records it has when it runs alone.
C20_Isolation ==
    \A i \in Instances :
        c_pc[i] = "returned" =>
            /\ c_metadata[Owner(i)] = AloneChunks(c_input[i])
            /\ c_nodes[Owner(i)] = LastNodes(c_input[i].page.scripts, <<>>)
            /\ c_records[i] = ExportAll(AloneChunks(c_input[i]), c_input[i].url)

\* both instances have returned, each with chunks and a node table, after
\* the second had started before the first finished
C20_Witness ==
    /\ \A i \in Instances :
          /\ c_pc[i] = "returned"
          /\ Len(c_metadata[Owner(i)]) >= 2
          /\ c_nodes[Owner(i)] # <<>>
          /\ c_records[i] # <<>>
    /\ c_metadata[Owner("one")] # c_metadata[Owner("two")]

-----------------------------------------------------------------------------
(* C21 *)

\* C21: get_repo_info tries the MSCR harvester first unless the URL contains
\* "fairsharing.org"; it runs the legacy RepositoryHarvester exactly when
\* MSCR was skipped, raised or returned empty metadata; and whenever the
\* legacy harvest itself completes, the call returns the repo-info
\* dictionary and not the 500 error response.
C21_LegacyFallback ==
    k_pc = "responded" =>
        /\ (k_mscr # "skipped") <=> ~Contains(k_url, FairsharingOrg)
        /\ (k_legacy # "none") <=> (k_mscr \in {"skipped", "raised", "empty"})
        /\ (k_legacy = "completed" => k_response.status = 200)

-----------------------------------------------------------------------------
(* C22 *)

\* the answer to a probe that starts a recovery when the probe is no
\* recovery attempt: a page of HTML with a link that contains ".json",
\* received where JSON was expected
HtmlWithJsonLinks(probe) ==
    /\ probe.route = "specific"
    /\ probe.resp.kind = "ok"
    /\ probe.resp.status_code = 200
    /\ probe.resp.html_ok
    /\ Contains(protocol_configs.accept, AppJson)
    /\ Contains(ReceivedMime(probe.resp, <<>>), TextHtml)
    /\ SelectSeq(probe.resp.links, IsJsonLink) # <<>>

\* C22: endpoint-validation recovery is at most one level deep: a
\* validate_url call made as a recovery attempt never starts a recovery of
\* its own, so a top-level call issues at most two probes, the original and
\* one recovered link, and has returned once the second is answered; a call
\* that has not returned can always take its next step.
C22_OneLevelRecovery ==
    /\ Len(v_probes) <= 2
    /\ (v_pc = "recovering" => Len(v_probes) = 1 /\ ~v_probes[1].recovery)
    /\ (Len(v_probes) = 2 =>
            /\ v_pc = "done"
            /\ ~v_probes[1].recovery
            /\ v_probes[2].recovery
            /\ v_probes[2].endpoint = v_recovery_url)
    /\ (v_pc \in {"start", "recovering"} => ENABLED NextValidate)

\* the recovered link was again answered with HTML that has JSON-like
\* links, and the call returned after its two probes
C22_Witness ==
    /\ v_pc = "done"
    /\ Len(v_probes) = 2
    /\ HtmlWithJsonLinks(v_probes[1])
    /\ HtmlWithJsonLinks(v_probes[2])

(* C23 *)
\* C23: when the re3data record carries no FAIRsharing identifier (or there
\* is no re3data record), FAIRsharing is searched by the full hostname
\* first and by the first label of the hostname only if the search by
\* hostname yielded nothing: every search by name comes right after a
\* search by the hostname of the catalog URL that returned nothing, a search
\* by hostname that returned a record is the last request made to
\* FAIRsharing, and an authenticated lookup of a URL with a hostname has
\* made its search by hostname.
FSSearches == {k \in 1..Len(calls) : calls[k].registry = "fairsharing"
                                      /\ calls[k].op \in {"search_hostname", "search_name"}}

C23_HostnameThenName ==
    /\ \A k \in FSSearches :
          /\ calls[k].op = "search_name" =>
                /\ k - 1 \in FSSearches
                /\ calls[k - 1].op = "search_hostname"
                /\ calls[k - 1].result = "none"
                /\ calls[k].arg = FirstLabel(UrlHostname(catalog_url))
          /\ calls[k].op = "search_hostname" =>
                /\ calls[k].arg = UrlHostname(catalog_url)
                /\ \A j \in FSSearches : j >= k
                /\ calls[k].result = "record" =>
                      \A j \in k + 1..Len(calls) : calls[j].registry # "fairsharing"
    /\ (/\ pc \in {"fs_name", "bridge", "done"}
        /\ ~Falsy(jwt_token)
        /\ ~Falsy(UrlHostname(catalog_url))
        /\ \A k \in 1..Len(calls) : calls[k].op # "search_id")
          => \E k \in FSSearches : calls[k].op = "search_hostname"

\* both outcomes of the search by hostname have happened: a lookup ended
\* after a search by name that followed an empty search by hostname
C23_Witness ==
    /\ pc = "done"
    /\ \E k \in FSSearches : calls[k].op = "search_name" /\ calls[k].result = "record"
    /\ \E k \in FSSearches : calls[k].op = "search_hostname" /\ calls[k].result = "none"

(* C24 *)
\* the number of objects of the tree that carry the identifier id and are
\* full (more members than '@id') or bare (the member '@id' alone)
RECURSIVE Occurrences(_, _, _)
RECURSIVE OccurrencesIn(_, _, _)
OccurrencesIn(values, id, full) ==
    IF values = <<>> THEN 0
    ELSE Occurrences(values[1], id, full) + OccurrencesIn(Tail(values), id, full)

Occurrences(tree, id, full) ==
    IF tree.t = "dict"
    THEN (IF DictGet(tree, AtId) = VStr(id) /\ (Len(tree.v) > 1) = full THEN 1 ELSE 0)
         + OccurrencesIn([i \in 1..Len(tree.v) |-> tree.v[i].val], id, full)
    ELSE IF tree.t = "list" THEN OccurrencesIn(tree.v, id, full)
    ELSE 0

\* every identifier of the node table is expanded in full at most once in
\* the tree, and a bare reference to it stands beside its one expansion
ExpandedOnce(tree, nodes) ==
    \A k \in 1..Len(nodes) :
       Len(nodes[k].dict.v) > 1 =>
          /\ Occurrences(tree, nodes[k].id, TRUE) <= 1
          /\ Occurrences(tree, nodes[k].id, FALSE) > 0 =>
                Occurrences(tree, nodes[k].id, TRUE) = 1

FinalInfo == setNodesInfo(SetBranches(Branches(g_document).v, EmptyGraph))

\* the first node of the table whose score, computed from the counts of the
\* finished table, is the highest
HighestScore(info) ==
    info.nodes[MinOf({k \in 1..Len(info.nodes) :
                        \A j \in 1..Len(info.nodes) :
                           ScoreNum(info.nodes[k], info) >= ScoreNum(info.nodes[j], info)})].id

RootSupplied == ~Falsy(g_rootNodeID) /\ InNodes(g_nodes, g_rootNodeID)

\* C25: after parse without a rootNodeID the root of the tree is the node
\* with the highest score properties / maxProperties
\* + 0.5 * (1 - inlinks / maxInlinks) / 2, the first entered among equals;
\* a rootNodeID that is supplied and in the node table is the root instead.
C25_RootByScore ==
    (g_pc \in {"parsed", "queried"} /\ g_nodes # <<>>) =>
       DictGet(g_jsonld, AtId) =
          VStr(IF RootSupplied THEN g_rootNodeID ELSE HighestScore(FinalInfo))

(* C26 *)
\* the objects of the graph in the opposite order
Reversed(graph) == [i \in 1..Len(graph) |-> graph[Len(graph) + 1 - i]]

\* no two nodes of the finished table have the same score
NoEqualScores(info) ==
    \A j, k \in 1..Len(info.nodes) :
       j # k => ScoreNum(info.nodes[j], info) # ScoreNum(info.nodes[k], info)

\* C26: the node chosen by _setNodesInfo is the node chosen by a two-pass
\* computation (count all references and the maxima over the whole node
\* table, then score), and it is the same when the objects of the input
\* come in the opposite order (for nodes of different scores, equal scores
\* going to the first node).
C26_TwoPass ==
    (g_pc \in {"parsed", "queried"} /\ g_nodes # <<>>) =>
       /\ g_mainNode = HighestScore(FinalInfo)
       /\ (Len(g_graph) = 2 /\ Len(g_nodes) = 2 /\ NoEqualScores(FinalInfo)) =>
             parse(Shaped(Reversed(g_graph), g_shape), g_rootNodeID).mainNode = g_mainNode

(* C27 *)
\* the objects of the tree, at every depth
RECURSIVE ObjectsOf(_)
ObjectsOf(tree) ==
    IF tree.t = "dict"
    THEN {tree} \cup UNION {ObjectsOf(tree.v[i].val) : i \in 1..Len(tree.v)}
    ELSE IF tree.t = "list" THEN UNION {ObjectsOf(tree.v[i]) : i \in 1..Len(tree.v)}
    ELSE {}

\* the expansions of the tree: the objects that carry the identifier of a
\* node and more than the identifier
Expansions(tree, nodes) ==
    {d \in ObjectsOf(tree) :
        /\ Len(d.v) > 1
        /\ DictGet(d, AtId).t = "str"
        /\ InNodes(nodes, DictGet(d, AtId).v)}

\* the expansion d of a node holds the "url" of the node's entry in the
\* node table as it is there
UrlCopied(d, nodes) ==
    LET entry == NodeOf(nodes, DictGet(d, AtId).v).dict
    IN  HasKey(entry, KeyUrl) => DictGet(d, KeyUrl) = DictGet(entry, KeyUrl)

\* every other property of the entry that is a string and the identifier
\* of another node is, in the expansion d, an object with that identifier
OthersExpanded(d, nodes) ==
    LET entry == NodeOf(nodes, DictGet(d, AtId).v).dict
    IN  \A i \in 1..Len(entry.v) :
           LET key == entry.v[i].key
               value == entry.v[i].val
           IN  (/\ key # KeyUrl
                /\ value.t = "str"
                /\ InNodes(nodes, value.v)
                /\ value # DictGet(d, AtId))
               => /\ DictGet(d, key).t = "dict"
                  /\ DictGet(DictGet(d, key), AtId) = value

\* C27: in the rebuilt tree the value of "url" of every node is the value
\* the node table holds, also when it is the identifier of a node, and
\* every other string property equal to another node's identifier is that
\* node's expansion or its back-reference.
C27_UrlOpaque ==
    (g_pc \in {"parsed", "queried"} /\ g_nodes # <<>>) =>
       \A d \in Expansions(g_jsonld, g_nodes) :
          UrlCopied(d, g_nodes) /\ OthersExpanded(d, g_nodes)

(* C28 *)
\* the chunk of one result: none for a source that gave no data
ChunkOf(r, source) == merge_metadata(<<>>, r, source, catalog_url)

\* the chunks of the typed links, in the order of the links
RECURSIVE LinkedChunks(_)
LinkedChunks(links) ==
    IF links = <<>> THEN <<>>
    ELSE ChunkOf(get_linked_jsonld_metadata(links[1]).r, "linked_jsonld")
         \o LinkedChunks(Tail(links))

\* the results of the extractors that ran on the landing page, in the order
\* of discovery; the extractors that follow a get_links that raises do not
\* run
SelfHostedChunks ==
    IF h_fetch # "page" \/ pc \in {"new", "self_hosted"} THEN <<>>
    ELSE ChunkOf(get_embedded_jsonld_metadata(h_page.scripts, NoExtract).r, "embedded_jsonld")
         \o ChunkOf(get_html_meta_tags_metadata(h_page.tags).r, "meta_tags")
         \o (IF h_page.links_fail THEN <<>>
              ELSE LinkedChunks(h_page.describedby)
                   \o ChunkOf(get_fairicat_metadata(h_page.fairicat).r, "fairicat_services")
                   \o ChunkOf(get_feed_metadata(h_page.feed).r, "feed_services")
                   \o ChunkOf(get_sitemap_service_metadata(h_page.robots).r, "sitemap_service"))

\* the results of the registries once harvest_registry_metadata has ended
RegistryChunks ==
    IF pc \in {"done", "export", "returned"} \/ (pc = "raised" /\ h_next > 0)
    THEN ChunkOf(re3data_meta, "re3data") \o ChunkOf(fairsharing_meta, "fairsharing")
    ELSE <<>>

SourceTags ==
    {"embedded_jsonld", "meta_tags", "linked_jsonld", "fairicat_services", "feed_services",
     "sitemap_service", "open_search", "re3data", "fairsharing"}

IsPrefix(s, t) == Len(s) <= Len(t) /\ SubSeq(t, 1, Len(s)) = s

\* C28: the chunk list is exactly the non-empty results in the order
\* embedded JSON-LD, meta tags, linked JSON-LD (one for each link, in the
\* order of the links), FAIRiCAT, feed, sitemap, re3data, FAIRsharing, each
\* with a source tag of the enumeration; and every step of a harvest only
\* appends to it.
C28_AppendOnly ==
    /\ [](/\ metadata = SelfHostedChunks \o RegistryChunks
          /\ \A k \in 1..Len(metadata) : metadata[k].source \in SourceTags)
    /\ [][IsPrefix(metadata, metadata')]_vars

\* a harvest that ended with two chunks of the typed links, one chunk of a
\* registry after them, and nothing from the sources without data
C28_Witness ==
    /\ pc = "returned"
    /\ Len(metadata) = 3
    /\ metadata[1].source = "linked_jsonld"
    /\ metadata[2].source = "linked_jsonld"
    /\ metadata[1] # metadata[2]
    /\ metadata[3].source \in {"re3data", "fairsharing"}

(* C29 *)
\* what the embedded scripts give when a script whose normalisation raises
\* is skipped and the scripts after it are still read
RECURSIVE SkippingRaised(_, _)
SkippingRaised(scripts, acc) ==
    IF scripts = <<>> THEN acc
    ELSE LET Extracted(e) ==
                 SkippingRaised(Tail(scripts), IF e.raised THEN acc ELSE Update(acc, e.extract))
         IN  Extracted(get_jsonld_metadata_simple(scripts[1]))

SomeScriptRaises(scripts) ==
    \E k \in 1..Len(scripts) : get_jsonld_metadata_simple(scripts[k]).raised

\* C29: when the normalisation of one embedded script raises, only that
\* script is skipped: the chunk of the embedded scripts holds what every
\* other script of the page gives, and the meta tags and every later source
\* contribute their chunks.
C29_FragmentSkipped ==
    (/\ pc \notin {"new", "self_hosted"}
     /\ h_fetch = "page"
     /\ ~h_page.links_fail
     /\ SomeScriptRaises(h_page.scripts)) =>
       IsPrefix(ChunkOf(SkippingRaised(h_page.scripts, NoExtract).r, "embedded_jsonld")
                \o ChunkOf(get_html_meta_tags_metadata(h_page.tags).r, "meta_tags")
                \o LinkedChunks(h_page.describedby)
                \o ChunkOf(get_fairicat_metadata(h_page.fairicat).r, "fairicat_services")
                \o ChunkOf(get_feed_metadata(h_page.feed).r, "feed_services")
                \o ChunkOf(get_sitemap_service_metadata(h_page.robots).r, "sitemap_service"),
                metadata)

(* C30 *)
Separators == {"?", "&"}

\* no separator of the query string directly follows another, and "?"
\* stands at most once
NoDuplicatedSeparator(url) ==
    /\ \A i \in 1..Len(url) - 1 : ~(url[i] \in Separators /\ url[i + 1] \in Separators)
    /\ Cardinality({i \in 1..Len(url) : url[i] = "?"}) <= 1

\* target is url with the suffix of a query appended by "?" or, when url has
\* a query string, by "&"
QueryAppended(url, suffix, target) ==
    target = url \o (IF \E i \in 1..Len(url) : url[i] = "?" THEN <<"&">> ELSE <<"?">>)
                 \o Tail(suffix)

\* target is url without its trailing slashes, followed by the suffix
PathAppended(url, suffix, target) ==
    \E n \in 0..Len(url) :
       /\ \A i \in n + 1..Len(url) : url[i] = "/"
       /\ n > 0 => url[n] # "/"
       /\ target = SubSeq(url, 1, n) \o suffix

\* C30: the probe URL of a check by the configured protocol is the endpoint
\* URL for an empty suffix; for a suffix starting with "?" the URL with the
\* suffix appended by "?", or by "&" when the URL has a query string, and
\* without a duplicated separator; for a suffix starting with "/" the URL
\* without its trailing slashes followed by the suffix, without "//" at the
\* join.
C30_ProbeUrl ==
    \A k \in 1..Len(v_probes) :
       LET probe == v_probes[k]
           suffix == protocol_configs.suffix
       IN  probe.route = "specific" =>
              /\ suffix = <<>> => probe.url = probe.endpoint
              /\ (suffix # <<>> /\ suffix[1] = "?") =>
                    /\ QueryAppended(probe.endpoint, suffix, probe.url)
                    /\ NoDuplicatedSeparator(probe.url)
              /\ (suffix # <<>> /\ suffix[1] = "/") =>
                    /\ PathAppended(probe.endpoint, suffix, probe.url)
                    /\ ~Contains(SubSeq(probe.url, Len(probe.url) - Len(suffix),
                                        Len(probe.url)), <<"/", "/">>)

====
